---------------------------- MODULE Spec2Model ----------------------------
(***************************************************************************)
(* DisplayQueue of the IA hardware composer                                *)
(* (src/common/display/displayqueue.cpp): the per-display frame pipeline.  *)
(*                                                                         *)
(* The queue's fields are the variables.  Every public operation is one    *)
(* action.  The collaborators whose code is not part of displayqueue.cpp   *)
(* (DisplayPlaneManager, DisplayPlaneState, OverlayLayer, Compositor,      *)
(* PhysicalDisplay, ScopedIdleStateTracker) are modelled by their          *)
(* contract; what they decide is a nondeterministic choice drawn with \E.  *)
(***************************************************************************)
EXTENDS Integers, Sequences, FiniteSets, TLC

VARIABLES
    state_,                     \* DisplayQueue::state_ : set of state bits
    tracker,                    \* idle_tracker_ (FrameStateTracker)
    in_flight_layers_,          \* layers of the last accepted frame
    previous_plane_state_,      \* plane list of the last committed frame
    surfaces_not_inuse_,        \* ages of surfaces queued for recycling
    mark_not_inuse_,            \* ages of surfaces to be marked at next commit
    kms_fence_,                 \* retained commit out-fence (0: none)
    last_commit_failed_update_,
    requested_video_effect_,
    applied_video_effect_,
    vblank_power_,              \* power mode handed to vblank_handler_
    refresh_callback_,          \* a refresh callback is registered
    scaling_tracker_,           \* ScalingTracker: state and the two ratios
    failed_pending,             \* history: a failed frame awaits its successor
    power_cycled,               \* history: Off then On, no commit attempt since
    exit_run,                   \* history: HandleExit calls in a row (0..2)
    kms_open,                   \* history: the handle in kms_fence_ is open
    color_request,              \* history: color values set and not yet pushed
    idle_fired,                 \* history: refresh callbacks fired in this run
                                \* of HandleIdleCase calls
    recycle_log,                \* history: for each surface waiting in
                                \* surfaces_not_inuse_ and mark_not_inuse_, the
                                \* age it came with and the commits since
    pc,                         \* per thread: the operation it runs and the
                                \* step it is at
    holding,                    \* per thread: the locks it holds, in the order
                                \* it took them
    commit_run,                 \* history: how the last commits were validated
    out                         \* what the last operation did and returned

vars == << state_, tracker, in_flight_layers_, previous_plane_state_,
           surfaces_not_inuse_, mark_not_inuse_, kms_fence_,
           last_commit_failed_update_, requested_video_effect_,
           applied_video_effect_, vblank_power_, refresh_callback_, scaling_tracker_, failed_pending, kms_open, color_request, idle_fired, recycle_log, commit_run,
           power_cycled, exit_run, out, pc, holding >>

\* everything but the threads
data == << state_, tracker, in_flight_layers_, previous_plane_state_,
           surfaces_not_inuse_, mark_not_inuse_, kms_fence_,
           last_commit_failed_update_, requested_video_effect_,
           applied_video_effect_, vblank_power_, refresh_callback_, scaling_tracker_, failed_pending, kms_open, color_request, idle_fired, recycle_log, commit_run,
           power_cycled, exit_run, out >>

---------------------------------------------------------------------------
(* Bounds of the model. *)

\* longest source layer list handed to QueueUpdate
MaxLayers == 2
MaxPowerLayers == 1
MaxVideoLayers == 1
MaxSteadyLayers == 1

\* longest source layer list handed to QueueUpdate in SpecPlanes
MaxPlaneLayers == 4

\* most surfaces waiting in surfaces_not_inuse_ before a frame starts
MaxNotInUse == 3

\* the same where planes have four surfaces
MaxAgedNotInUse == 5

\* the lowest age a surface waiting in surfaces_not_inuse_ is followed to
MaxAgeDebt == 3

---------------------------------------------------------------------------
(* State bits (displayqueue.h names). *)

kPoweredOn == "PoweredOn"
kConfigurationChanged == "ConfigurationChanged"
kNeedsColorCorrection == "NeedsColorCorrection"
kDisableOverlayUsage == "DisableOverlayUsage"
kIgnoreIdleRefresh == "IgnoreIdleRefresh"
kClonedMode == "ClonedMode"
kLastFrameIdleUpdate == "LastFrameIdleUpdate"
kMarkSurfacesForRelease == "MarkSurfacesForRelease"
kReleaseSurfaces == "ReleaseSurfaces"

kIgnoreUpdates == "IgnoreUpdates"
kTrackingFrames == "TrackingFrames"
kRevalidateLayers == "RevalidateLayers"
kPrepareComposition == "PrepareComposition"
kPrepareIdleComposition == "PrepareIdleComposition"
kRenderIdleDisplay == "RenderIdleDisplay"

kOff == "Off"
kDoze == "Doze"
kDozeSuspend == "DozeSuspend"
kOn == "On"

\* ScalingTracker::scaling_state_
kNeeedsNoSclaing == "NeeedsNoSclaing"
kNeedsScaling == "NeedsScaling"

---------------------------------------------------------------------------
(* Layers.  A source layer (HwcLayer) carries its visibility and kind; chg *)
(* is the one facet OverlayLayer::InitializeFromHwcLayer computes for it   *)
(* against the previous frame's peer.                                      *)

LayerKinds == {"normal", "cursor", "video"}

LayerFacets == {"none", "content", "dims", "source", "reval", "fulldraw",
                "rawpixel", "hidden", "nofb"}

IsVisible(l) == l.visible
\* an overlay layer that is never dropped after initialization
OverlayAlwaysVisible(l) == TRUE

OverlayIsVisible(l) == l.chg # "hidden"
IsCursorLayer(l) == l.kind = "cursor"
IsVideoLayer(l) == l.kind = "video"
HasLayerContentChanged(l) == l.chg = "content"
HasDimensionsChanged(l) == l.chg = "dims"
HasSourceRectChanged(l) == l.chg = "source"
NeedsRevalidation(l) == l.chg = "reval"
NeedsFullDraw(l) == l.chg = "fulldraw"
RawPixelDataChanged(l) == l.chg = "rawpixel"
BufferHasFb(l) == l.chg # "nofb"

Min(a, b) == IF a < b THEN a ELSE b

---------------------------------------------------------------------------
(* uint32_t and float.  A uint32_t value is kept as its two 16-bit halves, *)
(* so that sums and products wrap at 2^32 as the machine's do; arguments   *)
(* of the operators below are numbers below 2^31.                          *)

Half == 65536

\* a - b in uint32_t arithmetic
Sub32(a, b) ==
    IF a >= b THEN [hi |-> (a - b) \div Half, lo |-> (a - b) % Half]
    ELSE [hi |-> (Half - 1) - ((b - a - 1) \div Half), lo |-> (Half - 1) - ((b - a - 1) % Half)]

\* a * b in uint32_t arithmetic, by bytes of the low halves
Mul32(a, b) ==
    LET Low(ah, al, bh, bl) == ((((al \div 256) * (bl % 256)) + ((al % 256) * (bl \div 256))) * 256) + ((al % 256) * (bl % 256))
        High(ah, al, bh, bl) == (((ah * bl) % Half) + ((al * bh) % Half) + ((al \div 256) * (bl \div 256)) + (Low(ah, al, bh, bl) \div Half)) % Half
        Halves(ah, al, bh, bl) == [hi |-> High(ah, al, bh, bl), lo |-> Low(ah, al, bh, bl) % Half]
    IN Halves(a \div Half, a % Half, b \div Half, b % Half)

\* the number of bits of a 16-bit half
RECURSIVE Bits(_)
Bits(h) == IF h = 0 THEN 0 ELSE 1 + Bits(h \div 2)

\* 2^n
RECURSIVE Pow2(_)
Pow2(n) == IF n = 0 THEN 1 ELSE 2 * Pow2(n - 1)

\* float(x) of a uint32_t: the value m * 2^e, never negative, with m exact
\* below 2^24 and rounded to 24 bits, ties to even, from there on
FloatOfUint32(x) ==
    LET Rounded(m, r, s) ==
          LET up == (2 * r > Pow2(s)) \/ (2 * r = Pow2(s) /\ m % 2 = 1)
              m1 == IF up THEN m + 1 ELSE m
          IN IF m1 = Pow2(24) THEN [neg |-> FALSE, m |-> Pow2(23), e |-> s + 1]
             ELSE [neg |-> FALSE, m |-> m1, e |-> s]
        Shifted(s) == Rounded((x.hi * Pow2(16 - s)) + (x.lo \div Pow2(s)), x.lo % Pow2(s), s)
    IN IF x.hi < 256 THEN [neg |-> FALSE, m |-> x.hi * Half + x.lo, e |-> 0]
       ELSE Shifted(Bits(x.hi) - 8)

\* float(n) of a number of magnitude below 2^24
FloatOf(n) == [neg |-> n < 0, m |-> IF n < 0 THEN -n ELSE n, e |-> 0]

\* a float quotient, kept as its two operands
NoRatio == [num |-> FloatOf(0), den |-> FloatOf(1)]


---------------------------------------------------------------------------
(* QueueUpdate, phase 1: build the overlay layers and diff them against    *)
(* in_flight_layers_.                                                      *)

\* what in_flight_layers_ keeps of an overlay layer: its kind (its z-order
\* is its position)
InFlight(layers) == [i \in 1..Len(layers) |-> [kind |-> layers[i].kind]]

\* a loop that never notes a layer without a previous peer
AddIndexKept(add_index, has_previous, z) == add_index

\* add_index after the layer at z-order z: the first z-order that has no
\* layer in flight
AddIndex(add_index, has_previous, z) == IF ~has_previous /\ add_index = -1 THEN z ELSE add_index

\* one pass of the loop over source_layers
BuildStep(a, l, in_flight, validate_layers) ==
    IF ~IsVisible(l) THEN a
    ELSE
      LET z == a.z_order
          has_previous == Len(in_flight) > z
          add1 == AddIndex(a.add_index, has_previous, z)
      IN
      IF ~OverlayIsVisible(l) THEN [a EXCEPT !.add_index = add1]
      ELSE
        LET b == [a EXCEPT
                    !.layers = Append(@, l),
                    !.handle_raw_pixel_update = @ \/ RawPixelDataChanged(l),
                    !.has_video_layer = @ \/ IsVideoLayer(l),
                    !.re_validate_commit = @ \/ NeedsRevalidation(l),
                    !.idle_frame = IF NeedsRevalidation(l) THEN @
                                   ELSE IF HasLayerContentChanged(l) THEN FALSE
                                   ELSE @,
                    !.has_cursor = @ \/ IsCursorLayer(l),
                    !.z_order = @ + 1,
                    !.add_index = add1]
        IN
        IF add1 = 0 \/ validate_layers
           \/ (add1 # -1 /\ a.remove_index # -1)
        THEN b
        ELSE
          LET previous_layer == in_flight[z + 1]
              cursor_flip == has_previous
                             /\ IsCursorLayer(previous_layer) # IsCursorLayer(l)
              rem1 == IF cursor_flip /\ a.remove_index = -1 THEN z
                      ELSE a.remove_index
              add2 == IF cursor_flip /\ add1 = -1 THEN z ELSE add1
              video_flip == has_previous
                            /\ IsVideoLayer(previous_layer) # IsVideoLayer(l)
              rem2 == IF video_flip /\ rem1 = -1 THEN z ELSE rem1
              add3 == IF video_flip /\ add2 = -1 THEN z ELSE add2
          IN [b EXCEPT !.add_index = add3, !.remove_index = rem2]

RECURSIVE BuildLayers(_, _, _, _, _)
BuildLayers(source_layers, i, a, in_flight, validate_layers) ==
    IF i > Len(source_layers) THEN a
    ELSE BuildLayers(source_layers, i + 1,
                     BuildStep(a, source_layers[i], in_flight, validate_layers),
                     in_flight, validate_layers)

\* a frame that forgets the failure of the one before it
ValidateOnlyWhenEmpty(last_commit_failed, previous_empty) == previous_empty

\* validate_layers as the call starts: the last commit failed, or there is
\* no plan to patch
ValidateAtStart(last_commit_failed, previous_empty) == last_commit_failed \/ previous_empty

\* the diff of one frame: the loop, then the index fix-up, the idle test,
\* the video-effect test and the tracker's revalidation request
DiffFrame(source_layers, idle_update, render_idle_mode, revalidate_layers, in_flight, previous_empty, last_commit_failed, requested_video_effect, applied_video_effect) ==
    LET validate0 == ValidateAtStart(last_commit_failed, previous_empty)
        start == [layers |-> << >>, z_order |-> 0,
                  add_index |-> -1, remove_index |-> -1,
                  idle_frame |-> render_idle_mode \/ idle_update,
                  has_video_layer |-> FALSE, re_validate_commit |-> FALSE,
                  handle_raw_pixel_update |-> FALSE, has_cursor |-> FALSE]
        \* a: what the loop leaves
        Diff(a) ==
          LET size == Len(a.layers)
              previous_size == Len(in_flight)
              validate1 == (a.add_index = 0) \/ validate0
              remove_index ==
                  IF validate1 THEN a.remove_index
                  ELSE IF previous_size > size
                       THEN IF a.remove_index = -1 THEN size
                            ELSE IF a.add_index # -1
                                 THEN Min(a.add_index, a.remove_index)
                                 ELSE a.remove_index
                       ELSE a.remove_index
              idle1 == a.idle_frame
                       /\ ~(a.add_index # -1 \/ remove_index # -1
                            \/ a.re_validate_commit)
              validate2 == validate1 \/ idle1
              force_media_composition ==
                  a.has_video_layer /\ requested_video_effect # applied_video_effect
              validate3 == validate2 \/ force_media_composition
          IN [layers |-> a.layers,
              add_index |-> a.add_index,
              remove_index |-> remove_index,
              idle_frame |-> idle1 /\ ~force_media_composition,
              has_video_layer |-> a.has_video_layer,
              re_validate_commit |-> a.re_validate_commit,
              handle_raw_pixel_update |-> a.handle_raw_pixel_update,
              has_cursor |-> a.has_cursor,
              force_media_composition |-> force_media_composition,
              requested_video_effect |->
                  force_media_composition /\ requested_video_effect,
              applied_video_effect |->
                  IF force_media_composition THEN requested_video_effect
                  ELSE applied_video_effect,
              validate_layers |-> validate3 \/ revalidate_layers]
    IN Diff(BuildLayers(source_layers, 1, start, in_flight, validate0))

---------------------------------------------------------------------------
(* Planes.  A DisplayPlaneState keeps its source layers (z-orders, bottom  *)
(* to top), whether it needs offscreen composition, the ages of its        *)
(* offscreen surfaces, and its kind.  recycled is SurfaceRecycled(): the   *)
(* plane shows the surface it showed last frame, nothing was redrawn.      *)

Plane(layers, offscreen, surfaces, cursor, video) == [layers |-> layers, offscreen |-> offscreen, surfaces |-> surfaces, cursor |-> cursor, video |-> video, recycled |-> FALSE, effects |-> FALSE]

NeedsOffScreenComposition(plane) == plane.offscreen
IsCursorPlane(plane) == plane.cursor
IsVideoPlane(plane) == plane.video
SurfaceRecycled(plane) == plane.recycled
NeedsSurfaceAllocation(plane) == plane.surfaces = << >>

\* DisplayPlaneState::CopyState: a copy that has redrawn nothing yet
CopyState(plane) == [plane EXCEPT !.recycled = TRUE]

\* DisplayPlaneState::ResetLayers: keep the source layers below the threshold
ResetLayers(plane, threshold) == [plane EXCEPT !.layers = SelectSeq(@, LAMBDA z : z < threshold)]

\* DisplayPlaneState::AddLayer: one more source layer; more than one layer
\* is composed offscreen
AddLayerKeepsScanout(plane, z) == [plane EXCEPT !.layers = Append(@, z)]

AddLayer(plane, z) == [plane EXCEPT !.layers = Append(@, z), !.offscreen = TRUE]

\* a fresh offscreen surface set of n surfaces
FreshSurfaces(n) == [i \in 1..n |-> 0]

\* DisplayPlaneManager::SetOffScreenPlaneTarget
SetOffScreenPlaneTarget(plane, n) == IF plane.surfaces = << >> THEN [plane EXCEPT !.surfaces = FreshSurfaces(n), !.recycled = FALSE] ELSE [plane EXCEPT !.recycled = FALSE]

\* DisplayPlaneState::RefreshSurfaces and UpdateDamage: the surface is drawn
\* again
RedrawSurface(plane) == [plane EXCEPT !.recycled = FALSE]

\* DisplayPlaneManager::MarkSurfacesForRecycling: the plane's surfaces move
\* to the queue
MarkSurfacesForRecycling(plane, queue) == [plane |-> [plane EXCEPT !.surfaces = << >>], queue |-> queue \o plane.surfaces]

---------------------------------------------------------------------------
(* GetCachedLayers: the incremental patch of previous_plane_state_.        *)
(* cenv holds what the collaborators answer during the call:               *)
(*   fb_ok         CreateFrameBuffer gives the buffer a framebuffer        *)
(*   reval         RevalidationType() after ValidateReValidation()         *)
(*   can_scan_out  OverlayLayer::CanScanOut() of a plane's first layer     *)
(*   can_squash    DisplayPlaneState::CanSquash()                          *)
(*   nsurf         surfaces in a newly allocated offscreen target          *)

\* the overlay layer at z-order z
LayerAt(layers, z) == layers[z + 1]

\* position of the first of the plane's layers that needs a full draw
\* (one past the end when none does)
FirstFullDraw(layers, zs) == IF \E i \in 1..Len(zs) : NeedsFullDraw(LayerAt(layers, zs[i])) THEN CHOOSE i \in 1..Len(zs) : NeedsFullDraw(LayerAt(layers, zs[i])) /\ \A j \in 1..(i - 1) : ~NeedsFullDraw(LayerAt(layers, zs[j])) ELSE Len(zs) + 1

\* a scanout plane that always asks for a commit
ScanoutNeverIgnored(layer) == FALSE

\* a scanout plane leaves ignore_commit alone: its layer has new content or
\* needs its plane set up again
ScanoutCanIgnore(layer) == ~HasLayerContentChanged(layer) /\ ~(HasDimensionsChanged(layer) \/ NeedsRevalidation(layer) \/ NeedsFullDraw(layer))

\* the body of the loop over previous_plane_state_ for one plane
CachedPlane(a, previous_plane, is_primary, layers, remove_index, cenv) ==
    LET last0 == CopyState(previous_plane)
        index == last0.layers[Len(last0.layers)]
        removing == remove_index # -1 /\ index >= remove_index
        has_one_layer == Len(last0.layers) = 1
        clear_surface == removing /\ ~has_one_layer
        last1 == IF clear_surface THEN ResetLayers(last0, remove_index) ELSE last0
        ignore1 == a.ignore_commit /\ ~removing
    IN
    IF removing /\ (last1.layers = << >> \/ has_one_layer)
    THEN
      LET m == MarkSurfacesForRecycling(last1, a.not_inuse)
      IN IF is_primary
         THEN [a EXCEPT !.composition = Append(@, m.plane),
                        !.not_inuse = m.queue,
                        !.ignore_commit = ignore1,
                        !.force_full_validation = TRUE,
                        !.primary_emptied = TRUE,
                        !.returned = TRUE]
         ELSE [a EXCEPT !.not_inuse = m.queue, !.ignore_commit = ignore1]
    ELSE
      LET zs == last1.layers
          first == LayerAt(layers, zs[1])
          scan_reval == removing /\ cenv.reval = "scanout"
          mismatch == cenv.can_scan_out /\ NeedsOffScreenComposition(last1)
          validation1 == a.plane_validation \/ (scan_reval /\ mismatch)
          squash1 == a.check_to_squash
                     \/ (scan_reval /\ ~mismatch /\ Len(zs) = 1)
      IN
      IF NeedsOffScreenComposition(last1)
      THEN
        LET full_reset == clear_surface \/ a.reset_composition_regions
            update_rect == ~clear_surface
                /\ \E i \in 1..Len(zs) : HasDimensionsChanged(LayerAt(layers, zs[i]))
            update_source_rect == ~clear_surface
                /\ \E i \in 1..Len(zs) : HasSourceRectChanged(LayerAt(layers, zs[i]))
            k == FirstFullDraw(layers, zs)
            refresh_surfaces == a.reset_composition_regions
                \/ (~full_reset /\ k <= Len(zs))
            damage == ~full_reset
                /\ \E i \in 1..Len(zs) :
                      i <= k /\ HasLayerContentChanged(LayerAt(layers, zs[i]))
            validation2 == validation1
                \/ ((update_rect \/ update_source_rect \/ clear_surface)
                    /\ cenv.reval # "none")
            last2 == IF full_reset \/ damage \/ update_rect
                        \/ update_source_rect \/ refresh_surfaces
                     THEN IF NeedsSurfaceAllocation(last1)
                          THEN SetOffScreenPlaneTarget(last1, cenv.nsurf)
                          ELSE RedrawSurface(last1)
                     ELSE last1
        IN [a EXCEPT !.composition = Append(@, last2),
                     !.ignore_commit = ignore1,
                     !.plane_validation = validation2,
                     !.check_to_squash = squash1,
                     !.needs_gpu_composition = @ \/ ~SurfaceRecycled(last2),
                     !.reset_composition_regions = FALSE]
      ELSE
        IF ~BufferHasFb(first) /\ ~cenv.fb_ok
        THEN [a EXCEPT !.composition = Append(@, last1),
                       !.ignore_commit = ignore1,
                       !.plane_validation = validation1,
                       !.check_to_squash = squash1,
                       !.force_full_validation = TRUE,
                       !.returned = TRUE]
        ELSE
          LET redo == HasDimensionsChanged(first) \/ NeedsRevalidation(first)
                      \/ NeedsFullDraw(first)
          IN [a EXCEPT !.composition = Append(@, last1),
                       !.ignore_commit = ignore1 /\ ScanoutCanIgnore(first),
                       !.plane_validation = validation1,
                       !.check_to_squash = squash1,
                       !.reset_composition_regions = ~BufferHasFb(first) \/ redo]

\* a loop that takes no plane for the primary
IsPrimaryNever(i) == FALSE

\* last_plane.GetDisplayPlane() == previous_plane_state_.begin()->
\* GetDisplayPlane(): plane i (from 1) of previous_plane_state_ is on the
\* display plane of the first
IsPrimary(i) == i = 1

RECURSIVE CachedLoop(_, _, _, _, _, _)
CachedLoop(i, a, previous, layers, remove_index, cenv) ==
    IF i > Len(previous) \/ a.returned THEN a
    ELSE CachedLoop(i + 1, CachedPlane(a, previous[i], IsPrimary(i), layers, remove_index, cenv), previous, layers, remove_index, cenv)

\* the squash of the last overlay into the plane below it
Squash(composition, not_inuse, cenv) ==
    LET len == Len(composition)
        size == IF IsCursorPlane(composition[len]) THEN len - 1 ELSE len
    IN
    IF size > 2 /\ cenv.can_squash /\ Len(composition[size].layers) = 1
    THEN
      LET last_overlay == composition[size]
          old_plane == SetOffScreenPlaneTarget(AddLayer(composition[size - 1], last_overlay.layers[1]), cenv.nsurf)
          queue == IF last_overlay.surfaces # << >>
                   THEN MarkSurfacesForRecycling(last_overlay, not_inuse).queue
                   ELSE not_inuse
      IN [composition |->
             [i \in 1..(len - 1) |->
                 IF i = size - 1 THEN old_plane
                 ELSE IF i < size THEN composition[i] ELSE composition[i + 1]],
          not_inuse |-> queue]
    ELSE [composition |-> composition, not_inuse |-> not_inuse]

GetCachedLayers(previous, layers, remove_index, not_inuse, cenv) ==
    LET start == [composition |-> << >>, ignore_commit |-> TRUE,
                  check_to_squash |-> FALSE, plane_validation |-> FALSE,
                  reset_composition_regions |-> FALSE,
                  needs_gpu_composition |-> FALSE, not_inuse |-> not_inuse,
                  force_full_validation |-> FALSE, primary_emptied |-> FALSE,
                  returned |-> FALSE]
        \* a: what the loop leaves, s: the plan after the squash
        Result(a, s) ==
            IF a.returned
            THEN [composition |-> a.composition, render_layers |-> FALSE,
                  can_ignore_commit |-> FALSE, needs_plane_validation |-> FALSE,
                  force_full_validation |-> TRUE, not_inuse |-> a.not_inuse,
                  primary_emptied |-> a.primary_emptied, squashed |-> FALSE]
            ELSE [composition |-> s.composition,
                  render_layers |-> a.needs_gpu_composition,
                  can_ignore_commit |-> a.ignore_commit /\ ~a.needs_gpu_composition,
                  needs_plane_validation |-> a.plane_validation,
                  force_full_validation |-> FALSE, not_inuse |-> s.not_inuse,
                  primary_emptied |-> FALSE,
                  squashed |-> Len(s.composition) < Len(a.composition)]
        Finished(a) == Result(a, IF a.check_to_squash THEN Squash(a.composition, a.not_inuse, cenv) ELSE [composition |-> a.composition, not_inuse |-> a.not_inuse])
    IN Finished(CachedLoop(1, start, previous, layers, remove_index, cenv))

---------------------------------------------------------------------------
(* DisplayPlaneManager.  ValidateLayers appends planes for the layers from *)
(* start_index upward; which layers share a plane and whether a lone layer *)
(* is scanned out or composed offscreen is the hardware's answer, penv:    *)
(*   cuts        z-orders at which a new plane starts                      *)
(*   single_off  a plane with one layer is composed offscreen              *)
(*   nsurf       surfaces in a newly allocated offscreen target            *)

RECURSIVE GroupLayers(_, _, _, _, _)
GroupLayers(z, n, cuts, current, groups) ==
    IF z >= n THEN IF current = << >> THEN groups ELSE Append(groups, current)
    ELSE IF z \in cuts /\ current # << >>
         THEN GroupLayers(z + 1, n, cuts, << z >>, Append(groups, current))
         ELSE GroupLayers(z + 1, n, cuts, Append(current, z), groups)

NewPlane(zs, layers, force_gpu, penv) ==
    LET offscreen == Len(zs) > 1 \/ penv.single_off \/ force_gpu
    IN Plane(zs, offscreen,
             IF offscreen THEN FreshSurfaces(penv.nsurf) ELSE << >>,
             Len(zs) = 1 /\ IsCursorLayer(LayerAt(layers, zs[1])),
             \E i \in 1..Len(zs) : IsVideoLayer(LayerAt(layers, zs[i])))

\* the planes ValidateLayers appends for layers start_index .. |layers|-1
NewPlanes(layers, start_index, force_gpu, penv) ==
    LET groups == GroupLayers(start_index, Len(layers), penv.cuts, << >>, << >>)
    IN [i \in 1..Len(groups) |-> NewPlane(groups[i], layers, force_gpu, penv)]

\* DisplayPlaneManager::ValidateLayers: the plan, and whether it needs the GPU.
\* A full validation (start_index 0) builds the plan from scratch.
ValidateLayers(layers, start_index, force_gpu, composition, penv) ==
    LET added == NewPlanes(layers, start_index, force_gpu, penv)
        kept == IF start_index = 0 THEN << >> ELSE composition
    IN [composition |-> kept \o added,
        render_layers |-> \E i \in 1..Len(added) : NeedsOffScreenComposition(added[i])]

\* the answers ValidateLayers can give for n layers from start_index
PlanEnvs(n, start_index) == [cuts : SUBSET ((start_index + 1)..(n - 1)), single_off : BOOLEAN, nsurf : 1..5]

---------------------------------------------------------------------------
(* Surfaces. *)

\* every surface of a plane given the oldest age
SurfaceAgeAllOldest(size, i) == 2

\* the age UpdateOnScreenSurfaces gives surface i (0-based) of a set of size
\* surfaces; 2 - i is computed in uint32_t and handed to SetSurfaceAge, which
\* keeps it as the signed number 2 - i
SurfaceAge(size, i) == IF size = 3 THEN (IF i = 1 THEN 0 ELSE IF i = 0 THEN 2 ELSE 1) ELSE 2 - i

UpdateOnScreenSurfaces(planes) == [p \in 1..Len(planes) |-> [planes[p] EXCEPT !.surfaces = [i \in 1..Len(@) |-> SurfaceAge(Len(@), i - 1)]]]

\* the planes kept for the next frame: whether a surface was recycled is
\* decided anew in every frame (CopyState), so none of it is kept
KeptPlanes(planes) == [p \in 1..Len(planes) |-> CopyState(planes[p])]

\* the loop over surfaces_not_inuse_ after a commit: the surfaces that stay,
\* one frame younger, and those that move to mark_not_inuse_
\* (uint32_t)age > 0: a negative age reads as a large unsigned number
StillInUse(age) == age # 0

\* a loop over surfaces_not_inuse_ that leaves the ages alone
AgeNotInUseKept(queue) == [keep |-> SelectSeq(queue, StillInUse), mark |-> SelectSeq(queue, LAMBDA age : ~StillInUse(age))]

AgeNotInUse(queue) == [keep |-> [i \in 1..Len(SelectSeq(queue, StillInUse)) |-> SelectSeq(queue, StillInUse)[i] - 1], mark |-> SelectSeq(queue, LAMBDA age : ~StillInUse(age))]

\* a marking that leaves the surfaces in mark_not_inuse_
MarkNotInUseKept(mark) == [marked |-> [i \in 1..Len(mark) |-> -1], mark |-> mark]

\* the loop over mark_not_inuse_ before the swap of the plans: every surface
\* in it is given age -1 (marked: the ages they are left with), and the
\* vector is emptied
MarkNotInUse(mark) == [marked |-> [i \in 1..Len(mark) |-> -1], mark |-> << >>]

\* the release that forgets to clear the two flags
ReleaseSurfacesKept(state) == state

ReleaseSurfaces(state) == state \ {kMarkSurfacesForRelease, kReleaseSurfaces}

\* a release one commit early, as soon as the targets are marked
ReleasesTargetsAtMark(state, layers_validated) == ~layers_validated /\ kMarkSurfacesForRelease \in state

\* ReleaseSurfacesAsNeeded calls ReleaseSurfaces, and with it
\* ReleaseFreeOffScreenTargets
ReleasesTargets(state, layers_validated) == ~layers_validated /\ kReleaseSurfaces \in state

ReleaseSurfacesAsNeeded(state, layers_validated) ==
    LET s1 == IF ReleasesTargets(state, layers_validated) THEN ReleaseSurfaces(state) ELSE state
        s2 == IF kMarkSurfacesForRelease \in s1 THEN (s1 \cup {kReleaseSurfaces}) \ {kMarkSurfacesForRelease} ELSE s1
    IN IF layers_validated THEN (s2 \cup {kMarkSurfacesForRelease}) \ {kReleaseSurfaces} ELSE s2

\* SetMediaEffectsState on one plane
MediaEffectsPlane(apply_effects, plane, queue, nsurf) ==
    IF ~IsVideoPlane(plane) THEN [plane |-> plane, queue |-> queue]
    ELSE
      LET p == [plane EXCEPT !.effects = apply_effects]
      IN IF apply_effects /\ p.surfaces = << >>
         THEN [plane |-> SetOffScreenPlaneTarget(p, nsurf), queue |-> queue]
         ELSE IF ~apply_effects /\ p.surfaces # << >> /\ ~NeedsOffScreenComposition(p)
              THEN MarkSurfacesForRecycling(p, queue)
              ELSE [plane |-> p, queue |-> queue]

RECURSIVE SetMediaEffectsState(_, _, _, _, _)
SetMediaEffectsState(apply_effects, planes, i, queue, nsurf) ==
    IF i > Len(planes) THEN [composition |-> planes, not_inuse |-> queue]
    ELSE LET m == MediaEffectsPlane(apply_effects, planes[i], queue, nsurf)
         IN SetMediaEffectsState(apply_effects, [planes EXCEPT ![i] = m.plane], i + 1, m.queue, nsurf)

---------------------------------------------------------------------------
(* FrameStateTracker and the ScopedIdleStateTracker QueueUpdate holds for  *)
(* the length of the call.                                                 *)

\* ScopedIdleStateTracker's constructor: the call is in composition; an idle
\* composition that HandleIdleCase prepared is rendered by this call
TrackerEnter(t) == [t EXCEPT !.state = (IF kPrepareIdleComposition \in @ THEN (@ \ {kPrepareIdleComposition}) \cup {kRenderIdleDisplay} ELSE @) \cup {kPrepareComposition}, !.has_cursor_layer = FALSE]

IgnoreUpdate(t) == kIgnoreUpdates \in t.state
RenderIdleMode(t) == kRenderIdleDisplay \in t.state
RevalidateLayers(t) == kRevalidateLayers \in t.state
FrameHasCursor(t, has_cursor) == [t EXCEPT !.has_cursor_layer = @ \/ has_cursor]

\* ScopedIdleStateTracker::ResetTrackerState: forget the idle bookkeeping
ResetTrackerState(t) == [t EXCEPT !.state = @ \cap {kIgnoreUpdates, kPrepareComposition}, !.idle_frames = 0, !.revalidate_frames_counter = 0]

\* ScopedIdleStateTracker's destructor, on every return of QueueUpdate
TrackerExit(t, total_planes) == [t EXCEPT !.state = @ \ {kPrepareComposition, kRenderIdleDisplay}, !.idle_frames = 0, !.total_planes = total_planes]

---------------------------------------------------------------------------
(* QueueUpdate, phases 2 to 6. *)

\* every variable of the queue, as one record
Queue == [state_ |-> state_, tracker |-> tracker, in_flight_layers_ |-> in_flight_layers_, previous_plane_state_ |-> previous_plane_state_, surfaces_not_inuse_ |-> surfaces_not_inuse_, mark_not_inuse_ |-> mark_not_inuse_, kms_fence_ |-> kms_fence_, last_commit_failed_update_ |-> last_commit_failed_update_, requested_video_effect_ |-> requested_video_effect_, applied_video_effect_ |-> applied_video_effect_, vblank_power_ |-> vblank_power_, refresh_callback_ |-> refresh_callback_, scaling_tracker_ |-> scaling_tracker_]

\* what an operation reports; QueueUpdate fills in more
Report(op) == [op |-> op, result |-> TRUE, path |-> "none", retire_fence |-> -1, validated |-> FALSE, validate_index |-> -1, add_index |-> -1, remove_index |-> -1, incremental_index |-> -1, pure_addition |-> FALSE, plan_kept |-> FALSE, primary_kept |-> FALSE, primary_emptied |-> FALSE, render_layers |-> FALSE, draw_called |-> FALSE, commit_called |-> FALSE, color_pushed |-> FALSE, visible |-> 0, shown |-> 0, has_video_layer |-> FALSE, facets |-> {}, idle_update |-> FALSE, commit_planes |-> << >>, fence_closed |-> FALSE, fence_stored |-> FALSE, fence_closed_after |-> FALSE, kms_at_commit |-> 0, out_fence |-> 0, double_close |-> FALSE, leaked |-> FALSE, release |-> << >>, not_inuse_at_commit |-> << >>, marked |-> << >>, color_was |-> "none", idle_frame |-> FALSE, released |-> FALSE, render_idle_display |-> FALSE, was_ignoring |-> FALSE, refresh_fired |-> FALSE, after_refresh |-> [now |-> FALSE, was_ignoring |-> FALSE], scaling |-> [primary_width |-> 0, primary_height |-> 0, display_width |-> 0, display_height |-> 0], idle |-> [noop |-> TRUE, fired |-> FALSE, before |-> 0, may_refresh |-> FALSE], planes_disabled |-> FALSE, after_failure |-> FALSE, after_power_cycle |-> "no", same_layers |-> FALSE, pre |-> [run |-> "none", failed |-> FALSE, revalidate |-> FALSE, render_idle |-> FALSE, planes |-> 0, in_flight |-> 0, marks |-> 0, kms_fence |-> 0, video_pending |-> FALSE, fb_ok |-> TRUE, squashed |-> FALSE], kept |-> [in_flight |-> TRUE, planes |-> TRUE, queue |-> TRUE]]

\* what Commit is handed of a plane, for the record
Handed(planes) == [i \in 1..Len(planes) |-> [layers |-> planes[i].layers, offscreen |-> planes[i].offscreen]]

\* phase 2, after GetCachedLayers: slot in added layers, revalidate planes.
\* ienv: penv for ValidateLayers, its commit_checked and
\* needs_plane_validation answers, and ReValidatePlanes' answers
\* (force_full, render)
Incremental(d, g, disable_overlays, ienv) ==
    LET adding == d.add_index > 0
        ignore1 == g.can_ignore_commit /\ ~adding
        re_validate_commit == d.re_validate_commit /\ ~(adding /\ ienv.commit_checked)
        needs_plane_validation == g.needs_plane_validation \/ (adding /\ ienv.plane_validation)
        revalidating == re_validate_commit \/ needs_plane_validation
        validate == revalidating /\ ienv.force_full
        ignore2 == ignore1 /\ ~revalidating
        \* v: what ValidateLayers answers, m: the plan after SetMediaEffectsState
        Result(v, m) ==
            [composition |-> m.composition,
             not_inuse |-> m.not_inuse,
             render_layers |-> (g.render_layers \/ v.render_layers) \/ (revalidating /\ ienv.render) \/ (~validate /\ d.force_media_composition),
             can_ignore_commit |-> ignore2 /\ ~d.force_media_composition,
             validate_layers |-> validate,
             validate_index |-> IF adding THEN d.add_index ELSE -1]
        Media(v) == Result(v, IF ~validate /\ d.force_media_composition THEN SetMediaEffectsState(d.requested_video_effect, v.composition, 1, g.not_inuse, ienv.penv.nsurf) ELSE [composition |-> v.composition, not_inuse |-> g.not_inuse])
    IN Media(IF adding THEN ValidateLayers(d.layers, d.add_index, disable_overlays, g.composition, ienv.penv) ELSE [composition |-> g.composition, render_layers |-> FALSE])

\* a full validation that never turns to the media planes
MediaEffectsNeverApplied(force_media_composition, requested_video_effect) == FALSE

\* full validation goes through SetMediaEffectsState and forces GPU
\* composition only when the effect is being switched on
MediaEffectsApplied(force_media_composition, requested_video_effect) == force_media_composition /\ requested_video_effect

\* phase 3: full validation
FullValidation(d, state, t, not_inuse, penv) ==
    LET disable_overlays == kDisableOverlayUsage \in state
        force_gpu == disable_overlays \/ d.idle_frame \/ (kConfigurationChanged \in state /\ Len(d.layers) > 1)
        \* v: what ValidateLayers answers, m: the plan after SetMediaEffectsState
        Result(v, m) ==
            [composition |-> m.composition,
             not_inuse |-> m.not_inuse,
             render_layers |-> v.render_layers \/ MediaEffectsApplied(d.force_media_composition, d.requested_video_effect),
             tracker |-> IF d.idle_frame THEN t ELSE ResetTrackerState(t),
             state |-> state \ {kConfigurationChanged},
             validate_index |-> 0]
        Media(v) == Result(v, IF MediaEffectsApplied(d.force_media_composition, d.requested_video_effect) THEN SetMediaEffectsState(d.requested_video_effect, v.composition, 1, not_inuse, penv.nsurf) ELSE [composition |-> v.composition, not_inuse |-> not_inuse])
    IN Media(ValidateLayers(d.layers, 0, force_gpu, << >>, penv))

\* a failed Commit that has already published the frame
FailedCommitPublished(base, q, f, state) == [base EXCEPT !.state_ = state, !.last_commit_failed_update_ = TRUE, !.in_flight_layers_ = InFlight(f.layers), !.previous_plane_state_ = f.composition, !.tracker = TrackerExit(f.tracker, Len(q.previous_plane_state_))]

\* the queue after Commit failed: color correction was pushed, the failure
\* is remembered, nothing else is kept (base: the queue as Commit found it)
FailedCommit(base, q, f, state) == [base EXCEPT !.state_ = state, !.last_commit_failed_update_ = TRUE, !.tracker = TrackerExit(f.tracker, Len(q.previous_plane_state_))]

\* dup(fence): another handle of the same fence
Dup(fence) == fence + 100

\* HWCPoll and close of the retained fence that leave the handle in place
WaitAndKeep(kms_fence) == [kms_fence |-> kms_fence, closed |-> kms_fence > 0]

\* a retained fence that is forgotten, not closed
WaitWithoutClose(kms_fence) == [kms_fence |-> 0, closed |-> FALSE]

\* if (kms_fence_ > 0) { HWCPoll; close; kms_fence_ = 0; }
WaitAndClose(kms_fence) == [kms_fence |-> 0, closed |-> kms_fence > 0]

\* a retire fence that is the out-fence itself
RetireFenceMoved(fence, cloned) == IF fence > 0 /\ ~cloned THEN fence ELSE -1

\* *retire_fence after a commit that returned the out-fence fence
RetireFence(fence, cloned) == IF fence > 0 /\ ~cloned THEN Dup(fence) ELSE -1

\* the duplicate of fence made for the layer at z-order z: every dup gives
\* a handle of its own
DupFor(fence, z) == Dup(fence) + 1000 * (z + 1)

\* OverlayLayer::ReleaseAcquireFence of the layer at z-order z: the layer
\* gives up its acquire fence, if it holds one (renv.acquire > 0)
AcquireFence(renv, z) == IF renv.acquire > 0 THEN renv.acquire + z ELSE -1

\* plane.GetOverlayLayer()->ReleaseAcquireFence() of plane p: the fence of
\* the GPU composition into an offscreen target (if any: renv.composition
\* > 0), the acquire fence of the layer itself for a plane that scans out
CompositionFence(renv, plane, p) ==
    IF NeedsOffScreenComposition(plane)
    THEN IF renv.composition > 0 THEN renv.composition + p ELSE -1
    ELSE AcquireFence(renv, plane.layers[1])

\* a release fence that is the handle the queue holds itself
ReleaseFenceShared(release_fence, z) == release_fence

\* the release fence of a layer of a plane whose fence is release_fence
ReleaseFenceOf(release_fence, z) == DupFor(release_fence, z)

\* SetReleaseFenceToLayers for plane p: the handle each source layer is
\* given (original: the handle it was duplicated from, or the handle
\* itself if it was moved; -1: the layer is given nothing), the handles
\* closed, and the plane's composition fence
PlaneReleaseFences(fence, plane, p, renv) ==
    IF ~NeedsOffScreenComposition(plane) /\ ~SurfaceRecycled(plane)
    THEN [handed |-> [i \in 1..Len(plane.layers) |-> [layer |-> plane.layers[i], fence |-> ReleaseFenceOf(fence, plane.layers[i]), original |-> fence, composition |-> "display"]],
          closed |-> << >>,
          release_fence |-> -1]
    ELSE LET Given(release_fence) ==
                 [handed |-> [i \in 1..Len(plane.layers) |->
                                IF release_fence > 0
                                THEN [layer |-> plane.layers[i], fence |-> ReleaseFenceOf(release_fence, plane.layers[i]), original |-> release_fence, composition |-> "gpu"]
                                ELSE LET temp == IF NeedsOffScreenComposition(plane) THEN AcquireFence(renv, plane.layers[i]) ELSE -1
                                     IN [layer |-> plane.layers[i], fence |-> IF temp > 0 THEN temp ELSE -1, original |-> IF temp > 0 THEN temp ELSE -1, composition |-> "gpu"]],
                  closed |-> IF release_fence > 0 THEN << release_fence >> ELSE << >>,
                  release_fence |-> release_fence]
         IN Given(CompositionFence(renv, plane, p))

\* DisplayQueue::SetReleaseFenceToLayers over previous_plane_state_
SetReleaseFenceToLayers(fence, planes, renv) == [p \in 1..Len(planes) |-> PlaneReleaseFences(fence, planes[p], p, renv)]

\* phases 4 to 6 for a frame f that reached composition: GPU composition,
\* Commit and the bookkeeping after it.  outcome is what BeginFrame, Draw
\* and Commit answer, fence the out-fence Commit returns, renv the fences
\* the overlay layers hold; double_buffering is ENABLE_DOUBLE_BUFFERING of
\* the build.
ComposeAndCommit(q, f, outcome, fence, renv, double_buffering) ==
    LET rep == [Report("QueueUpdate") EXCEPT !.validated = f.validated, !.validate_index = f.validate_index, !.render_layers = f.render_layers]
        base == [q EXCEPT !.state_ = f.state, !.surfaces_not_inuse_ = f.not_inuse, !.applied_video_effect_ = f.applied]
        cloned == kClonedMode \in f.state
    IN
    IF f.render_layers /\ outcome \in {"begin_failed", "draw_failed"}
    THEN [queue |-> [base EXCEPT !.last_commit_failed_update_ = TRUE,
                                 !.tracker = TrackerExit(f.tracker, Len(q.previous_plane_state_))],
          out |-> [rep EXCEPT !.result = FALSE, !.path = "draw_failed",
                              !.draw_called = (outcome = "draw_failed")]]
    ELSE
      LET state1 == f.state \ {kNeedsColorCorrection}
          before == IF double_buffering THEN [kms_fence |-> q.kms_fence_, closed |-> FALSE] ELSE WaitAndClose(q.kms_fence_)
          stored == IF fence > 0 THEN fence ELSE before.kms_fence
          after == IF double_buffering THEN WaitAndClose(stored) ELSE [kms_fence |-> stored, closed |-> FALSE]
          rep1 == [rep EXCEPT !.draw_called = f.render_layers,
                              !.commit_called = TRUE,
                              !.fence_closed = before.closed,
                              !.kms_at_commit = before.kms_fence,
                              !.color_pushed = kNeedsColorCorrection \in f.state,
                              !.commit_planes = Handed(f.composition)]
      IN
      IF outcome = "commit_failed"
      THEN [queue |-> FailedCommit([base EXCEPT !.kms_fence_ = before.kms_fence], q, f, state1),
            out |-> [rep1 EXCEPT !.result = FALSE, !.path = "commit_failed"]]
      ELSE
        LET aged == AgeNotInUse(f.not_inuse)
            state2 == IF f.idle_frame
                      THEN ReleaseSurfaces(state1) \cup {kLastFrameIdleUpdate}
                      ELSE ReleaseSurfacesAsNeeded(state1 \ {kLastFrameIdleUpdate}, f.validated)
            tracker1 == IF f.idle_frame /\ cloned
                        THEN [f.tracker EXCEPT !.state = @ \cup {kRenderIdleDisplay}]
                        ELSE f.tracker
        IN [queue |-> [base EXCEPT
                         !.state_ = state2,
                         !.mark_not_inuse_ = MarkNotInUse(q.mark_not_inuse_).mark \o aged.mark,
                         !.in_flight_layers_ = InFlight(f.layers),
                         !.previous_plane_state_ = KeptPlanes(UpdateOnScreenSurfaces(f.composition)),
                         !.surfaces_not_inuse_ = aged.keep,
                         !.kms_fence_ = after.kms_fence,
                         !.last_commit_failed_update_ = FALSE,
                         !.tracker = TrackerExit(tracker1, Len(f.composition))],
            out |-> [rep1 EXCEPT !.path = "committed",
                                 !.out_fence = fence,
                                 !.idle_frame = f.idle_frame,
                                 !.released = f.idle_frame \/ ReleasesTargets(state1 \ {kLastFrameIdleUpdate}, f.validated),
                                 !.render_idle_display = kRenderIdleDisplay \in tracker1.state,
                                 !.not_inuse_at_commit = f.not_inuse,
                                 !.marked = MarkNotInUse(q.mark_not_inuse_).marked,
                                 !.fence_stored = fence > 0,
                                 !.fence_closed_after = after.closed,
                                 !.release = IF fence > 0 THEN SetReleaseFenceToLayers(fence, UpdateOnScreenSurfaces(f.composition), renv) ELSE << >>,
                                 !.retire_fence = RetireFence(fence, cloned)]]

\* the incremental path returning early: nothing to commit
CommitIgnored(q, f) == [queue |-> [q EXCEPT !.state_ = f.state, !.surfaces_not_inuse_ = f.not_inuse, !.applied_video_effect_ = f.applied, !.in_flight_layers_ = InFlight(f.layers), !.tracker = TrackerExit(f.tracker, Len(q.previous_plane_state_))], out |-> [Report("QueueUpdate") EXCEPT !.path = "commit_ignored", !.validate_index = f.validate_index]]

\* the call returning at once: the tracker says to ignore updates
Ignored(q, t, retire_in) == [queue |-> [q EXCEPT !.tracker = TrackerExit(t, Len(q.previous_plane_state_))], out |-> [Report("QueueUpdate") EXCEPT !.path = "ignored", !.retire_fence = retire_in]]

\* the frame an incremental validation r hands on
IncrementalFrame(q, d, t, r) == [layers |-> d.layers, composition |-> r.composition, not_inuse |-> r.not_inuse, render_layers |-> r.render_layers, validated |-> FALSE, validate_index |-> r.validate_index, idle_frame |-> d.idle_frame, tracker |-> t, state |-> q.state_, applied |-> d.applied_video_effect]

\* the frame a full validation hands on
FullFrame(q, d, t, not_inuse, penv) ==
    LET Frame(v) == [layers |-> d.layers, composition |-> v.composition, not_inuse |-> v.not_inuse, render_layers |-> v.render_layers, validated |-> TRUE, validate_index |-> v.validate_index, idle_frame |-> d.idle_frame, tracker |-> v.tracker, state |-> v.state, applied |-> d.applied_video_effect]
    IN Frame(FullValidation(d, q.state_, t, not_inuse, penv))

---------------------------------------------------------------------------
(* The other operations, as functions of the queue. *)

\* ResetQueue
ResetQueue(q) == [q EXCEPT !.applied_video_effect_ = FALSE, !.last_commit_failed_update_ = FALSE, !.in_flight_layers_ = << >>, !.previous_plane_state_ = << >>, !.mark_not_inuse_ = << >>, !.surfaces_not_inuse_ = << >>, !.tracker = [@ EXCEPT !.state = @ \cap {kIgnoreUpdates}, !.idle_frames = 0]]

\* HandleExit with the retained fence left in kms_fence_ after its close
HandleExitKeepsFence(q) == [queue |-> ResetQueue([q EXCEPT !.state_ = {kConfigurationChanged} \cup (@ \cap {kDisableOverlayUsage, kClonedMode}), !.vblank_power_ = kOff]), out |-> [Report("HandleExit") EXCEPT !.planes_disabled = q.previous_plane_state_ # << >>, !.fence_closed = q.kms_fence_ > 0]]

\* HandleExit
HandleExit(q) == [queue |-> ResetQueue([q EXCEPT !.state_ = {kConfigurationChanged} \cup (@ \cap {kDisableOverlayUsage, kClonedMode}), !.vblank_power_ = kOff, !.kms_fence_ = 0]), out |-> [Report("HandleExit") EXCEPT !.planes_disabled = q.previous_plane_state_ # << >>, !.fence_closed = q.kms_fence_ > 0]]

\* SetPowerMode(kOn) that forgets to ask for color correction
PowerOnNoColor(q) == [q EXCEPT !.state_ = (@ \cup {kPoweredOn, kConfigurationChanged}) \ {kIgnoreIdleRefresh}, !.vblank_power_ = kOn]

\* SetPowerMode(kOn)
PowerOn(q) == [q EXCEPT !.state_ = (@ \cup {kPoweredOn, kConfigurationChanged, kNeedsColorCorrection}) \ {kIgnoreIdleRefresh}, !.vblank_power_ = kOn]

\* SetPowerMode(kDozeSuspend)
PowerDozeSuspend(q) == [q EXCEPT !.state_ = @ \cup {kPoweredOn}, !.vblank_power_ = kDozeSuspend]

---------------------------------------------------------------------------
(* The source layer lists a caller hands to QueueUpdate: up to max layers, *)
(* invisible ones among them, at most one with a facet set.                *)

HiddenLayer == [visible |-> FALSE, kind |-> "normal", chg |-> "none"]

MakeFrame(ks, p, c) == [i \in 1..Len(ks) |-> IF ks[i] = "invisible" THEN HiddenLayer ELSE [visible |-> TRUE, kind |-> ks[i], chg |-> IF i = p THEN c ELSE "none"]]

FramesOfLength(n, kinds, facets) == { MakeFrame(ks, p, c) : ks \in [1..n -> kinds], p \in 0..n, c \in facets }

FrameSet(max, kinds, facets) == UNION { FramesOfLength(n, kinds, facets) : n \in 0..max }

\* the values the caller's retire fence variable may hold before the call
RetireFenceBefore == {-1, 5}

\* the out-fence Commit returns (0: none)
OutFences == {0, 1}

\* an answer that stands for all when the answer is never asked for
OneOf(S) == CHOOSE x \in S : TRUE

\* the answers ValidateLayers gives in the environment env
PlanEnvsIn(env, n, start_index) == { e \in PlanEnvs(n, start_index) : e.nsurf \in env.nsurf /\ e.single_off \in env.single_off }

\* what GetCachedLayers' collaborators may answer for this frame
CachedEnvs(layers, remove_index, env) ==
    LET removing == remove_index # -1
        moved == \E i \in 1..Len(layers) : HasDimensionsChanged(layers[i]) \/ HasSourceRectChanged(layers[i])
    IN [fb_ok : IF \E i \in 1..Len(layers) : ~BufferHasFb(layers[i]) THEN BOOLEAN ELSE {TRUE},
        reval : IF removing \/ moved THEN {"none", "scanout", "other"} ELSE {"none"},
        can_scan_out : IF removing THEN BOOLEAN ELSE {FALSE},
        can_squash : IF removing THEN BOOLEAN ELSE {FALSE},
        nsurf : IF removing THEN env.nsurf ELSE {OneOf(env.nsurf)}]

\* what the plane manager may answer on the incremental path
IncrementalEnvs(d, g, env) ==
    LET adding == d.add_index > 0
        revalidating == d.re_validate_commit \/ g.needs_plane_validation
    IN [penv : IF adding THEN PlanEnvsIn(env, Len(d.layers), d.add_index) ELSE {OneOf(PlanEnvsIn(env, 0, 0))},
        commit_checked : IF adding /\ d.re_validate_commit THEN BOOLEAN ELSE {FALSE},
        plane_validation : IF adding /\ ~g.needs_plane_validation THEN BOOLEAN ELSE {FALSE},
        force_full : IF adding \/ revalidating THEN BOOLEAN ELSE {FALSE},
        render : IF adding \/ revalidating THEN BOOLEAN ELSE {FALSE}]

\* what BeginFrame, Draw and Commit may answer
Outcomes(render_layers) == IF render_layers THEN {"begin_failed", "draw_failed", "commit_failed", "committed"} ELSE {"commit_failed", "committed"}

---------------------------------------------------------------------------
(* The operations as actions on the queue. *)

kidleframes == 1

\* the life of the handle in kms_fence_ over an operation that reports o:
\* a close before Commit or in HandleExit, the store of the out-fence, a
\* close after Commit.  open: the handle was open before the operation.
Ledger(open, o) ==
    LET open1 == open /\ ~o.fence_closed
        open2 == open1 \/ o.fence_stored
    IN [open |-> open2 /\ ~o.fence_closed_after,
        double_close |-> (o.fence_closed /\ ~open) \/ (o.fence_closed_after /\ ~open2),
        leaked |-> o.fence_stored /\ open1]

\* the log of a queue that grew at its end: a surface that has come in
\* since is logged with the age it has
Extend(log, queue) == [i \in 1..Len(queue) |-> IF i <= Len(log) THEN log[i] ELSE [entered |-> queue[i], commits |-> 0]]

\* the log entries of the surfaces the loop over surfaces_not_inuse_ kept
\* (keep) or moved to mark_not_inuse_ (~keep), one commit older
RECURSIVE Sift(_, _, _)
Sift(log, ages, keep) == IF log = << >> THEN << >> ELSE (IF StillInUse(Head(ages)) = keep THEN << [Head(log) EXCEPT !.commits = @ + 1] >> ELSE << >>) \o Sift(Tail(log), Tail(ages), keep)

\* the log after an operation that leaves the queue as q and reports o
LogAfter(log, q, o) ==
    IF o.op = "QueueUpdate" /\ o.path = "committed"
    THEN [queue |-> Sift(Extend(log.queue, o.not_inuse_at_commit), o.not_inuse_at_commit, TRUE),
          mark |-> Sift(Extend(log.queue, o.not_inuse_at_commit), o.not_inuse_at_commit, FALSE)]
    ELSE [queue |-> Extend(log.queue, q.surfaces_not_inuse_),
          mark |-> IF q.mark_not_inuse_ = << >> THEN << >> ELSE log.mark]

\* what becomes of color values the caller set, over an operation that
\* reports o: "pending" once a setter was called, "none" once a commit
\* pushed them, "lost" when HandleExit came before the push, "pending"
\* again when SetPowerMode(kOn) asks for color correction
ColorRequest(request, o) ==
    CASE o.op = "SetColor" -> "pending"
      [] o.op = "QueueUpdate" /\ o.color_pushed -> "none"
      [] o.op = "HandleExit" /\ request = "pending" -> "lost"
      [] o.op = "SetPowerModeOn" /\ request = "lost" -> "pending"
      [] OTHER -> request

\* the queue takes the value q, the report o
\* the successful commits behind the queue: "full" after a non-idle commit
\* that went through full validation, "full_inc" after an incrementally
\* validated one that came directly after such a commit, "none" otherwise
\* and after a reset of the queue
CommitRun(run, q, o) ==
    IF o.op = "QueueUpdate" /\ o.path = "committed"
    THEN IF o.idle_frame THEN "none"
         ELSE IF o.validated THEN "full"
         ELSE IF run = "full" THEN "full_inc"
         ELSE "none"
    ELSE IF q.previous_plane_state_ = << >> THEN "none"
    ELSE run

Publish(q, o) ==
    /\ state_' = q.state_
    /\ tracker' = q.tracker
    /\ in_flight_layers_' = q.in_flight_layers_
    /\ previous_plane_state_' = q.previous_plane_state_
    /\ surfaces_not_inuse_' = q.surfaces_not_inuse_
    /\ mark_not_inuse_' = q.mark_not_inuse_
    /\ kms_fence_' = q.kms_fence_
    /\ last_commit_failed_update_' = q.last_commit_failed_update_
    /\ requested_video_effect_' = q.requested_video_effect_
    /\ applied_video_effect_' = q.applied_video_effect_
    /\ vblank_power_' = q.vblank_power_
    /\ refresh_callback_' = q.refresh_callback_
    /\ scaling_tracker_' = q.scaling_tracker_
    /\ kms_open' = Ledger(kms_open, o).open
    /\ color_request' = ColorRequest(color_request, o)
    /\ recycle_log' = LogAfter(recycle_log, q, o)
    /\ commit_run' = CommitRun(commit_run, q, o)
    /\ UNCHANGED <<pc, holding>>
    /\ idle_fired' = IF o.op = "HandleIdleCase" /\ ~o.idle.noop THEN Min(idle_fired + (IF o.idle.fired THEN 1 ELSE 0), 2) ELSE 0
    /\ out' = [o EXCEPT !.color_was = color_request, !.after_refresh = [now |-> out.op = "ForceRefresh", was_ignoring |-> out.was_ignoring], !.kept = [in_flight |-> q.in_flight_layers_ = in_flight_layers_, planes |-> q.previous_plane_state_ = previous_plane_state_, queue |-> q = Queue], !.double_close = Ledger(kms_open, o).double_close, !.leaked = Ledger(kms_open, o).leaked]

\* what the call met on its way: a buffer with no framebuffer to be had, a
\* squash of the last overlay, the index the incremental path gave
\* ValidateLayers (-1: it made no such call), a removal that left the
\* primary plane without layers
Seen(fb_ok, squashed, incremental_index, primary_emptied) == [fb_ok |-> fb_ok, squashed |-> squashed, incremental_index |-> incremental_index, primary_emptied |-> primary_emptied]

\* the frame keeps every layer in flight, in kind, and puts layers on top
PureAddition(layers, in_flight) == Len(in_flight) >= 1 /\ Len(layers) > Len(in_flight) /\ SubSeq(InFlight(layers), 1, Len(in_flight)) = in_flight

\* the plan handed to Commit begins with the planes of previous, each with
\* the source layers it had
PlanKept(commit_planes, previous) == Len(commit_planes) >= Len(previous) /\ (\A p \in 1..Len(previous) : commit_planes[p].layers = previous[p].layers)

\* the plan handed to Commit begins with the first plane of previous, with
\* the source layers it had or the lower ones of them, at least one
PrimaryKept(commit_planes, previous) == previous # << >> /\ commit_planes # << >> /\ commit_planes[1].layers # << >> /\ Len(commit_planes[1].layers) <= Len(previous[1].layers) /\ commit_planes[1].layers = SubSeq(previous[1].layers, 1, Len(commit_planes[1].layers))

\* what the call found before it acted, for the report
Observed(o, source_layers, idle_update, t, d, seen) ==
    [o EXCEPT !.visible = Len(SelectSeq(source_layers, IsVisible)),
              !.shown = Cardinality({i \in 1..Len(source_layers) : source_layers[i].visible /\ source_layers[i].chg # "hidden"}),
              !.has_video_layer = d.has_video_layer,
              !.add_index = d.add_index,
              !.remove_index = d.remove_index,
              !.incremental_index = seen.incremental_index,
              !.pure_addition = PureAddition(d.layers, in_flight_layers_),
              !.plan_kept = PlanKept(o.commit_planes, previous_plane_state_),
              !.primary_kept = PrimaryKept(o.commit_planes, previous_plane_state_),
              !.primary_emptied = seen.primary_emptied,
              !.facets = {source_layers[i].chg : i \in {j \in 1..Len(source_layers) : IsVisible(source_layers[j])}} \ {"none"},
              !.idle_update = idle_update,
              !.after_failure = failed_pending,
              !.after_power_cycle = power_cycled,
              !.same_layers = (InFlight(d.layers) = in_flight_layers_),
              !.pre = [run |-> commit_run, failed |-> last_commit_failed_update_, revalidate |-> RevalidateLayers(t), render_idle |-> RenderIdleMode(t), planes |-> Len(previous_plane_state_), in_flight |-> Len(in_flight_layers_), marks |-> Len(mark_not_inuse_), kms_fence |-> kms_fence_, video_pending |-> requested_video_effect_ # applied_video_effect_, fb_ok |-> seen.fb_ok, squashed |-> seen.squashed]]

\* a QueueUpdate that was not ignored ends with the result r
Finish(r, source_layers, idle_update, t, d, seen) ==
    /\ Publish(r.queue, Observed(r.out, source_layers, idle_update, t, d, seen))
    /\ failed_pending' = ~r.out.result
    /\ power_cycled' = IF power_cycled = "cycled" /\ ~r.out.commit_called THEN "cycled" ELSE IF power_cycled = "off" /\ r.out.path = "committed" THEN "off_committed" ELSE IF power_cycled \in {"off", "off_committed"} THEN power_cycled ELSE "no"
    /\ exit_run' = 0

\* the frame f goes to composition and Commit
Compose(f, source_layers, idle_update, t, d, seen, env) ==
    \E outcome \in Outcomes(f.render_layers) \cap env.outcomes :
      \E fence \in (IF outcome = "committed" THEN env.fences ELSE {0}) :
       \E renv \in (IF outcome = "committed" /\ fence > 0 THEN env.release ELSE {OneOf(env.release)}) :
        /\ Len(f.not_inuse) <= env.max_not_inuse
        /\ \A i \in 1..Len(f.not_inuse) : f.not_inuse[i] >= -MaxAgeDebt
        /\ Finish(ComposeAndCommit(Queue, f, outcome, fence, renv, env.double_buffering), source_layers, idle_update, t, d, seen)

\* the frame goes through full validation
Validate(d, t, not_inuse, source_layers, idle_update, seen, env) ==
    \E penv \in PlanEnvsIn(env, Len(d.layers), 0) :
        Compose(FullFrame(Queue, d, t, not_inuse, penv), source_layers, idle_update, t, d, seen, env)

\* QueueUpdate(source_layers, retire_fence, idle_update) where the
\* collaborators answer within env
QueueUpdateOf(source_layers, idle_update, env) ==
    LET t0 == TrackerEnter(tracker)
        \* r: the frame as the incremental path leaves it
        Patched(r, d, t, g, cenv) ==
            IF r.validate_layers
            THEN Validate(d, t, r.not_inuse, source_layers, idle_update, Seen(cenv.fb_ok, FALSE, r.validate_index, FALSE), env)
            ELSE IF r.can_ignore_commit
                 THEN Finish(CommitIgnored(Queue, IncrementalFrame(Queue, d, t, r)), source_layers, idle_update, t, d, Seen(cenv.fb_ok, g.squashed, r.validate_index, FALSE))
                 ELSE Compose(IncrementalFrame(Queue, d, t, r), source_layers, idle_update, t, d, Seen(cenv.fb_ok, g.squashed, r.validate_index, FALSE), env)
        \* g: what GetCachedLayers makes of previous_plane_state_
        Cached(g, d, t, cenv) ==
            IF g.force_full_validation
            THEN Validate(d, t, g.not_inuse, source_layers, idle_update, Seen(cenv.fb_ok, FALSE, -1, g.primary_emptied), env)
            ELSE \E ienv \in IncrementalEnvs(d, g, env) :
                    Patched(Incremental(d, g, kDisableOverlayUsage \in state_, ienv), d, t, g, cenv)
        \* d: the diff against the frame in flight, t: the tracker
        Diffed(d, t) ==
            IF d.validate_layers
            THEN Validate(d, t, surfaces_not_inuse_, source_layers, idle_update, Seen(TRUE, FALSE, -1, FALSE), env)
            ELSE \E cenv \in CachedEnvs(d.layers, d.remove_index, env) :
                    Cached(GetCachedLayers(previous_plane_state_, d.layers, d.remove_index, surfaces_not_inuse_, cenv), d, t, cenv)
        Entered(d) == Diffed(d, FrameHasCursor(t0, d.has_cursor))
        Skipped(i, retire_in) ==
            /\ Publish(i.queue, [i.out EXCEPT !.visible = Len(SelectSeq(source_layers, IsVisible)), !.idle_update = idle_update, !.after_failure = failed_pending, !.after_power_cycle = power_cycled])
            /\ UNCHANGED <<failed_pending, power_cycled>>
            /\ exit_run' = 0
    IN
    IF IgnoreUpdate(t0)
    THEN \E retire_in \in RetireFenceBefore : Skipped(Ignored(Queue, t0, retire_in), retire_in)
    ELSE Entered(DiffFrame(source_layers, idle_update, RenderIdleMode(t0), RevalidateLayers(t0), in_flight_layers_, previous_plane_state_ = << >>, last_commit_failed_update_, requested_video_effect_, applied_video_effect_))

\* an operation other than QueueUpdate and HandleExit leaves the queue as
\* q and reports o
Returns(q, o) ==
    /\ Publish(q, o)
    /\ UNCHANGED <<failed_pending, power_cycled>>
    /\ exit_run' = 0

CallAs(q, op) == Returns(q, Report(op))

Call(q) == CallAs(q, "call")

Exit ==
    /\ Publish(HandleExit(Queue).queue, HandleExit(Queue).out)
    /\ UNCHANGED failed_pending
    /\ power_cycled' = "off"
    /\ exit_run' = Min(exit_run + 1, 2)

SetPowerMode ==
    \E power_mode \in {kOff, kDoze, kDozeSuspend, kOn} :
        CASE power_mode \in {kOff, kDoze} -> Exit
          [] power_mode = kDozeSuspend -> Call(PowerDozeSuspend(Queue))
          [] power_mode = kOn ->
                /\ Publish(PowerOn(Queue), Report("SetPowerModeOn"))
                /\ UNCHANGED failed_pending
                /\ power_cycled' = (CASE power_cycled = "off" -> "cycled" [] power_cycled = "off_committed" -> "cycled_committed" [] OTHER -> power_cycled)
                /\ exit_run' = 0

SetCloneMode ==
    \E cloned \in BOOLEAN :
        IF cloned
        THEN IF kClonedMode \notin state_
             THEN Call([Queue EXCEPT !.state_ = @ \cup {kClonedMode}, !.vblank_power_ = kOff])
             ELSE Call(Queue)
        ELSE IF kClonedMode \in state_
             THEN Call([Queue EXCEPT !.state_ = (@ \ {kClonedMode}) \cup {kConfigurationChanged}, !.vblank_power_ = kOn])
             ELSE Call(Queue)

IgnoreUpdates == Call([Queue EXCEPT !.tracker = [@ EXCEPT !.idle_frames = 0, !.state = {kIgnoreUpdates}, !.revalidate_frames_counter = 0]])

\* a refresh that is asked for whatever the power state
MayRefreshAlways(state, refresh_callback) == TRUE

\* the test before refresh_callback_->Callback in HandleIdleCase and
\* ForceRefresh
MayRefresh(state, refresh_callback) == kIgnoreIdleRefresh \notin state /\ refresh_callback /\ kPoweredOn \in state

\* HandleIdleCase on the queue q: the queue after it, and whether the call
\* returned at one of the no-op tests (noop), the idle counter it found
\* (before), whether it called the refresh callback (fired)
IdleCase(q) ==
    LET t == q.tracker
        rep == [Report("HandleIdleCase") EXCEPT !.idle = [noop |-> FALSE, fired |-> FALSE, before |-> t.idle_frames, may_refresh |-> kIgnoreIdleRefresh \notin q.state_ /\ q.refresh_callback_ /\ kPoweredOn \in q.state_]]
    IN
    IF kPrepareComposition \in t.state THEN [queue |-> q, out |-> Report("HandleIdleCase")]
    ELSE IF t.total_planes <= 1 \/ kTrackingFrames \in t.state \/ kRevalidateLayers \in t.state \/ t.has_cursor_layer THEN [queue |-> q, out |-> Report("HandleIdleCase")]
    ELSE IF t.idle_frames > kidleframes THEN [queue |-> q, out |-> rep]
    ELSE IF t.idle_frames < kidleframes THEN [queue |-> [q EXCEPT !.tracker = [@ EXCEPT !.idle_frames = @ + 1]], out |-> rep]
    ELSE IF MayRefresh(q.state_, q.refresh_callback_)
         THEN [queue |-> [q EXCEPT !.tracker = [@ EXCEPT !.idle_frames = @ + 1, !.state = @ \cup {kPrepareIdleComposition}]], out |-> [rep EXCEPT !.idle.fired = TRUE]]
         ELSE [queue |-> [q EXCEPT !.tracker = [@ EXCEPT !.idle_frames = @ + 1]], out |-> rep]

\* a ForceRefresh that leaves IgnoreUpdates as it is
RefreshStateStillIgnoring(state) == state \cup {kRevalidateLayers}

\* idle_tracker_.state_ after ForceRefresh
RefreshState(state) == (state \ {kIgnoreUpdates}) \cup {kRevalidateLayers}

ForceRefresh == Returns([Queue EXCEPT !.tracker = [@ EXCEPT !.state = RefreshState(@)]], [Report("ForceRefresh") EXCEPT !.was_ignoring = kIgnoreUpdates \in tracker.state, !.refresh_fired = MayRefresh(state_, refresh_callback_)])

HandleIdleCase == Returns(IdleCase(Queue).queue, IdleCase(Queue).out)

RegisterRefreshCallback == \E callback \in BOOLEAN : Call([Queue EXCEPT !.refresh_callback_ = callback])

DisplayConfigurationChanged == Call([Queue EXCEPT !.state_ = @ \cup {kConfigurationChanged}])

\* primary_area != display_area, both uint32_t products
AreasDiffer(primary_width, primary_height, display_width, display_height) == Mul32(primary_width, primary_height) # Mul32(display_width, display_height)

\* float(display - primary) / float(primary), the difference in uint32_t
ScalingRatio(display, primary) == [num |-> FloatOfUint32(Sub32(display, primary)), den |-> FloatOfUint32(Sub32(primary, 0))]

ScalingTrackerAfter(t, primary_width, primary_height, display_width, display_height) ==
    IF AreasDiffer(primary_width, primary_height, display_width, display_height)
    THEN [scaling_state_ |-> kNeedsScaling, scaling_width |-> ScalingRatio(display_width, primary_width), scaling_height |-> ScalingRatio(display_height, primary_height)]
    ELSE [t EXCEPT !.scaling_state_ = kNeeedsNoSclaing]

\* the sizes (width, height) a caller passes for the primary and the display
ScalingSizes == {<<1920, 1080>>, <<1080, 1920>>, <<1280, 720>>, <<65536, 65536>>, <<131072, 32768>>}

UpdateScalingRatioOf(primary_width, primary_height, display_width, display_height) ==
        Returns([Queue EXCEPT !.scaling_tracker_ = ScalingTrackerAfter(@, primary_width, primary_height, display_width, display_height),
                              !.state_ = @ \cup {kConfigurationChanged}],
                [Report("UpdateScalingRatio") EXCEPT !.scaling = [primary_width |-> primary_width, primary_height |-> primary_height, display_width |-> display_width, display_height |-> display_height]])

UpdateScalingRatio == \E primary \in ScalingSizes, display \in ScalingSizes : UpdateScalingRatioOf(primary[1], primary[2], display[1], display[2])

\* a color setter that leaves the state word alone
ColorChangedUnflagged(q) == q

\* state_ |= kNeedsColorCorrection, the last statement of every color setter
ColorChanged(q) == [q EXCEPT !.state_ = @ \cup {kNeedsColorCorrection}]

SetGamma == CallAs(ColorChanged(Queue), "SetColor")

SetColorTransform == CallAs(ColorChanged(Queue), "SetColor")

SetContrast == CallAs(ColorChanged(Queue), "SetColor")

SetBrightness == CallAs(ColorChanged(Queue), "SetColor")

SetExplicitSyncSupport == \E disable_explicit_sync \in BOOLEAN : Call([Queue EXCEPT !.state_ = IF disable_explicit_sync THEN @ \cup {kDisableOverlayUsage} ELSE @ \ {kDisableOverlayUsage}])

SetVideoColor == Call([Queue EXCEPT !.requested_video_effect_ = TRUE])

RestoreVideoDefaultColor == Call([Queue EXCEPT !.requested_video_effect_ = FALSE])

SetVideoDeinterlace == Call([Queue EXCEPT !.requested_video_effect_ = TRUE])

RestoreVideoDefaultDeinterlace == Call([Queue EXCEPT !.requested_video_effect_ = FALSE])

---------------------------------------------------------------------------
(* Threads and locks.  An operation is the sequence of its lock, unlock    *)
(* and access statements; a thread runs one operation at a time, a         *)
(* statement at a step.  A thread at an access step is in the middle of    *)
(* that access.                                                            *)

\* the caller thread, the vblank thread, the video tuning thread
Threads == {"caller", "vblank", "video"}

Idle == [op |-> "none", steps |-> << >>, at |-> 0]

Lock(l) == [do |-> "lock", on |-> l, write |-> FALSE]
Unlock(l) == [do |-> "unlock", on |-> l, write |-> FALSE]
Read(x) == [do |-> "access", on |-> x, write |-> FALSE]
Write(x) == [do |-> "access", on |-> x, write |-> TRUE]

\* a ForceRefresh that asks for the refresh before it lets go of idle_lock_
ForceRefreshNested == << Lock("power_mode_lock_"), Lock("idle_lock_"), Write("tracker"), Unlock("idle_lock_"), Read("state_"), Unlock("power_mode_lock_") >>

\* ForceRefresh
ForceRefreshSteps == << Lock("idle_lock_"), Write("tracker"), Unlock("idle_lock_"), Lock("power_mode_lock_"), Read("state_"), Unlock("power_mode_lock_") >>

\* ForceRefresh when IgnoreIdleRefresh is clear: the test goes on to read
\* refresh_callback_, and the call reads it and refrsh_display_id_ (the two
\* are written together and count as one here)
ForceRefreshCallSteps == << Lock("idle_lock_"), Write("tracker"), Unlock("idle_lock_"), Lock("power_mode_lock_"), Read("state_"), Read("refresh_callback_"), Unlock("power_mode_lock_") >>

\* a video setter: requested_video_effect_ and the compositor call
VideoSetterSteps == << Lock("video_lock_"), Write("requested_video_effect_"), Write("compositor_video"), Unlock("video_lock_") >>

\* the paths through an operation
Steps(op) ==
    CASE op = "IgnoreUpdates" -> { << Write("tracker") >> }
      [] op = "ForceRefresh" -> { ForceRefreshSteps, ForceRefreshCallSteps }
      [] op = "HandleIdleCase" ->
            { << Lock("idle_lock_"), Read("tracker"), Unlock("idle_lock_") >>,
              << Lock("idle_lock_"), Read("tracker"), Write("tracker"), Unlock("idle_lock_") >>,
              << Lock("idle_lock_"), Read("tracker"), Write("tracker"), Lock("power_mode_lock_"), Read("state_"), Unlock("power_mode_lock_"), Unlock("idle_lock_") >>,
              << Lock("idle_lock_"), Read("tracker"), Write("tracker"), Lock("power_mode_lock_"), Read("state_"), Read("refresh_callback_"), Write("tracker"), Unlock("power_mode_lock_"), Unlock("idle_lock_") >> }
      [] op = "RegisterRefreshCallback" -> { << Lock("idle_lock_"), Write("refresh_callback_"), Unlock("idle_lock_") >> }
      [] op = "SetPowerModeOn" -> { << Write("state_"), Lock("power_mode_lock_"), Write("state_"), Unlock("power_mode_lock_") >> }
      [] op = "HandleExit" -> { << Lock("power_mode_lock_"), Write("state_"), Unlock("power_mode_lock_"), Write("state_"), Read("tracker"), Write("tracker") >> }
      [] op \in {"SetVideoColor", "RestoreVideoDefaultColor", "SetVideoDeinterlace", "RestoreVideoDefaultDeinterlace"} -> { VideoSetterSteps }
      [] op = "SetVideoScalingMode" -> { << Lock("video_lock_"), Write("compositor_video"), Unlock("video_lock_") >> }
      [] op = "GetVideoColor" -> { << Read("compositor_video") >> }
      [] op = "QueueUpdate" ->
            { << Lock("video_lock_"), Read("requested_video_effect_"), Unlock("video_lock_") >>,
              << Write("tracker") >> }

\* the operations a thread calls
OpsOf(t) ==
    CASE t = "caller" -> {"QueueUpdate", "IgnoreUpdates", "SetPowerModeOn", "HandleExit", "RegisterRefreshCallback", "SetVideoColor", "SetVideoScalingMode"}
      [] t = "vblank" -> {"HandleIdleCase", "ForceRefresh"}
      [] t = "video" -> {"SetVideoColor", "GetVideoColor", "RestoreVideoDefaultColor", "SetVideoDeinterlace", "RestoreVideoDefaultDeinterlace", "SetVideoScalingMode"}

\* the statement thread t is at (Idle has none)
Busy(t) == pc[t].op # "none"
AtEnd(t) == Busy(t) /\ pc[t].at > Len(pc[t].steps)
Statement(t) == pc[t].steps[pc[t].at]
At(t, do) == Busy(t) /\ ~AtEnd(t) /\ Statement(t).do = do

\* the thread that holds lock l, if any
Holds(t, l) == \E i \in 1..Len(holding[t]) : holding[t][i] = l
Free(l) == \A t \in Threads : ~Holds(t, l)

Advance(t) == pc' = [pc EXCEPT ![t].at = @ + 1]

\* thread t enters an operation
Enter(t) ==
    /\ ~Busy(t)
    /\ \E op \in OpsOf(t) : \E steps \in Steps(op) : pc' = [pc EXCEPT ![t] = [op |-> op, steps |-> steps, at |-> 1]]
    /\ UNCHANGED <<holding, data>>

\* std::mutex::lock: the thread waits until the lock is free
Acquire(t) ==
    /\ At(t, "lock")
    /\ Free(Statement(t).on)
    /\ holding' = [holding EXCEPT ![t] = Append(@, Statement(t).on)]
    /\ Advance(t)
    /\ UNCHANGED data

\* std::mutex::unlock
Release(t) ==
    /\ At(t, "unlock")
    /\ holding' = [holding EXCEPT ![t] = SelectSeq(@, LAMBDA l : l # Statement(t).on)]
    /\ Advance(t)
    /\ UNCHANGED data

\* the access the thread was in is done
Access(t) ==
    /\ At(t, "access")
    /\ Advance(t)
    /\ UNCHANGED <<holding, data>>

\* the operation returns
Return(t) ==
    /\ AtEnd(t)
    /\ pc' = [pc EXCEPT ![t] = Idle]
    /\ UNCHANGED <<holding, data>>

---------------------------------------------------------------------------

\* the queue after its constructor and Initialize
Init ==
    /\ \E disable_overlay \in BOOLEAN : state_ = {kNeedsColorCorrection} \cup (IF disable_overlay THEN {kDisableOverlayUsage} ELSE {})
    /\ tracker = [state |-> {}, idle_frames |-> 0, has_cursor_layer |-> FALSE, total_planes |-> 0, revalidate_frames_counter |-> 0]
    /\ in_flight_layers_ = << >>
    /\ previous_plane_state_ = << >>
    /\ surfaces_not_inuse_ = << >>
    /\ mark_not_inuse_ = << >>
    /\ kms_fence_ = 0
    /\ last_commit_failed_update_ = FALSE
    /\ requested_video_effect_ = FALSE
    /\ applied_video_effect_ = FALSE
    /\ vblank_power_ = kOff
    /\ refresh_callback_ = FALSE
    /\ scaling_tracker_ = [scaling_state_ |-> kNeeedsNoSclaing, scaling_width |-> NoRatio, scaling_height |-> NoRatio]
    /\ failed_pending = FALSE
    /\ power_cycled = "no"
    /\ exit_run = 0
    /\ kms_open = FALSE
    /\ color_request = "none"
    /\ idle_fired = 0
    /\ recycle_log = [queue |-> << >>, mark |-> << >>]
    /\ commit_run = "none"
    /\ pc = [t \in Threads |-> Idle]
    /\ holding = [t \in Threads |-> << >>]
    /\ out = Report("Initialize")

---------------------------------------------------------------------------
(* Specifications.  Each lets the callers hand QueueUpdate the frames and  *)
(* lets the collaborators give the answers that one aspect of the queue    *)
(* needs, next to the operations that bear on it.                          *)

\* the fences the overlay layers may hold when the release fences are
\* handed out: a composition fence per offscreen plane or none, an acquire
\* fence per layer or none
ReleaseEnvs == [composition : {-1, 10}, acquire : {-1, 20}]

\* no overlay layer holds a fence
NoFences == [composition |-> -1, acquire |-> -1]

\* every answer the collaborators can give
AnyAnswer == [nsurf |-> {1, 3}, single_off |-> BOOLEAN, outcomes |-> {"begin_failed", "draw_failed", "commit_failed", "committed"}, fences |-> OutFences, release |-> ReleaseEnvs, double_buffering |-> FALSE, max_not_inuse |-> MaxNotInUse]

\* frames and failures: whole frames of ordinary layers, any of BeginFrame,
\* Draw and Commit may fail
Frames == FrameSet(MaxLayers, {"normal"}, {"none", "content"})

QueueUpdate == \E source_layers \in Frames : QueueUpdateOf(source_layers, FALSE, [AnyAnswer EXCEPT !.nsurf = {1}, !.single_off = {FALSE}, !.release = {NoFences}, !.fences = {0}])

Next ==
    \/ QueueUpdate

Spec == Init /\ [][Next]_vars

\* ignored updates: layers that are or turn out invisible, IgnoreUpdates
\* and ForceRefresh
HiddenFrames == FrameSet(MaxLayers, {"normal", "invisible"}, {"none", "hidden"})

QueueUpdateHidden == \E source_layers \in HiddenFrames : QueueUpdateOf(source_layers, FALSE, [AnyAnswer EXCEPT !.nsurf = {1}, !.single_off = {FALSE}, !.release = {NoFences}, !.outcomes = {"committed"}, !.fences = {1}])

NextIgnore ==
    \/ QueueUpdateHidden
    \/ IgnoreUpdates
    \/ ForceRefresh

SpecIgnore == Init /\ [][NextIgnore]_vars

\* power: one layer, SetPowerMode
PowerFrames == FrameSet(MaxPowerLayers, {"normal"}, {"none", "content"})

QueueUpdatePowered == \E source_layers \in PowerFrames : QueueUpdateOf(source_layers, FALSE, [AnyAnswer EXCEPT !.nsurf = {1}, !.single_off = {FALSE}, !.release = {NoFences}, !.outcomes = {"commit_failed", "committed"}])

NextPower ==
    \/ QueueUpdatePowered
    \/ SetPowerMode

SpecPower == Init /\ [][NextPower]_vars

\* video: a video layer, the video effect setters
VideoFrames == FrameSet(MaxVideoLayers, {"normal", "video"}, {"none"})

QueueUpdateVideo == \E source_layers \in VideoFrames : QueueUpdateOf(source_layers, FALSE, [AnyAnswer EXCEPT !.nsurf = {1}, !.single_off = {FALSE}, !.release = {NoFences}, !.outcomes = {"begin_failed", "draw_failed", "committed"}, !.fences = {0}])

NextVideo ==
    \/ QueueUpdateVideo
    \/ SetVideoColor
    \/ RestoreVideoDefaultColor
    \/ SetVideoDeinterlace
    \/ RestoreVideoDefaultDeinterlace

SpecVideo == Init /\ [][NextVideo]_vars

\* planes: frames deep enough for three planes, layers coming and going
PlaneFrames == UNION { FramesOfLength(n, {"normal"}, {"none"}) : n \in (MaxPlaneLayers - 1)..MaxPlaneLayers }

QueueUpdatePlanes == \E source_layers \in PlaneFrames : QueueUpdateOf(source_layers, FALSE, [AnyAnswer EXCEPT !.single_off = {FALSE}, !.release = {NoFences}, !.outcomes = {"committed"}, !.fences = {0}])

NextPlanes ==
    \/ QueueUpdatePlanes

SpecPlanes == Init /\ [][NextPlanes]_vars

\* the steady state: frames that repeat, idle updates, ForceRefresh, a
\* video effect asked for or dropped
SteadyFrames == FrameSet(MaxSteadyLayers, {"normal", "video"}, {"none", "content", "fulldraw"})

QueueUpdateSteady == \E source_layers \in SteadyFrames, idle_update \in BOOLEAN : QueueUpdateOf(source_layers, idle_update, [AnyAnswer EXCEPT !.nsurf = {1}, !.single_off = {FALSE}, !.release = {NoFences}, !.outcomes = {"committed"}, !.fences = {0}])

NextSteady ==
    \/ QueueUpdateSteady
    \/ ForceRefresh
    \/ SetVideoColor
    \/ RestoreVideoDefaultColor

SpecSteady == Init /\ [][NextSteady]_vars

---------------------------------------------------------------------------
(* Properties. *)

\* the last operation was a QueueUpdate that the tracker did not ignore
Updated == out.op = "QueueUpdate" /\ out.path # "ignored"

\* C1: a QueueUpdate that returns failure (BeginFrame, Draw or Commit
\* failed) leaves in_flight_layers_ and previous_plane_state_ as they were
\* before the call.
C1_FailureKeepsFrame == (out.op = "QueueUpdate" /\ ~out.result) => (out.kept.in_flight /\ out.kept.planes)

\* a Commit failed on a frame that differs from the one in flight, with a
\* plan in place
C1_Witness == out.op = "QueueUpdate" /\ ~out.result /\ out.path = "commit_failed" /\ ~out.same_layers /\ previous_plane_state_ # << >> /\ out.commit_planes # Handed(previous_plane_state_)

\* C2: after a failed QueueUpdate the next QueueUpdate that is not ignored
\* takes the full validation path (ValidateLayers from index 0) whatever the
\* diff, and last_commit_failed_update_ is clear again unless this frame
\* fails too.
C2_FullValidationAfterFailure == (Updated /\ out.after_failure) => (out.validated /\ out.validate_index = 0 /\ (out.result => ~last_commit_failed_update_))

\* the frame after a failure repeats the frame in flight and is committed
C2_Witness == Updated /\ out.after_failure /\ out.same_layers /\ out.facets = {} /\ out.pre.planes > 0 /\ out.path = "committed" /\ out.validated

\* C3: after IgnoreUpdates() a QueueUpdate returns success with the retire
\* fence -1, issues no Commit and changes no queue state, whatever the
\* caller's retire fence variable held.
C3_IgnoredUpdateReturnsNoFence == (out.op = "QueueUpdate" /\ out.path = "ignored") => (out.result /\ out.retire_fence = -1 /\ ~out.commit_called /\ out.kept.queue)

\* an update is ignored while a frame is in flight
C3_Witness == out.op = "QueueUpdate" /\ out.path = "ignored" /\ out.visible > 0 /\ in_flight_layers_ # << >> /\ out.retire_fence = 5

\* C4 as stated: after every successful QueueUpdate, ignored ones included,
\* in_flight_layers_ holds as many layers as the input had visible layers and
\* previous_plane_state_ is non-empty iff the input had a visible layer.
C4_InFlightCountsVisibleInput == (out.op = "QueueUpdate" /\ out.result) => (Len(in_flight_layers_) = out.visible /\ (previous_plane_state_ # << >> <=> out.visible >= 1))

\* C4: after every successful QueueUpdate that the tracker did not ignore,
\* in_flight_layers_ holds as many layers as the input had visible layers
\* whose overlay layer is visible after initialization, and
\* previous_plane_state_ is non-empty iff there is such a layer.
C4_InFlightCountsShownLayers == (Updated /\ out.result) => (Len(in_flight_layers_) = out.shown /\ (previous_plane_state_ # << >> <=> out.shown >= 1))

\* a successful update dropped a layer that the caller marked visible
C4_Witness == Updated /\ out.result /\ out.visible = 2 /\ out.shown = 1 /\ Len(in_flight_layers_) = 1

\* the ages of a plane's surfaces
Ages(plane) == { plane.surfaces[i] : i \in 1..Len(plane.surfaces) }

\* C5 as stated: after every committed frame the ages of the surfaces of a
\* plane with 1 or 3 surfaces are a permutation of 0 .. |surfaces|-1.
C5_AgesArePermutation == \A p \in 1..Len(previous_plane_state_) : Len(previous_plane_state_[p].surfaces) \in {1, 3} => Ages(previous_plane_state_[p]) = 0..(Len(previous_plane_state_[p].surfaces) - 1)

\* C5: after every committed frame the surfaces of a plane with 3 surfaces
\* have the ages 2, 0, 1 in order (a permutation of 0..2) and the surface of
\* a plane with 1 surface has age 2.
C5_AgesOfCommittedPlanes == \A p \in 1..Len(previous_plane_state_) : (Len(previous_plane_state_[p].surfaces) = 3 => previous_plane_state_[p].surfaces = <<2, 0, 1>>) /\ (Len(previous_plane_state_[p].surfaces) = 1 => previous_plane_state_[p].surfaces = <<2>>)

\* a committed frame has a plane with three surfaces and one with a single
\* surface
C5_Witness == out.path = "committed" /\ (\E p \in 1..Len(previous_plane_state_) : Len(previous_plane_state_[p].surfaces) = 3) /\ (\E p \in 1..Len(previous_plane_state_) : Len(previous_plane_state_[p].surfaces) = 1)

\* a plane that is scanned out has exactly one source layer
ScanoutHasOneLayer(planes) == \A p \in 1..Len(planes) : ~planes[p].offscreen => Len(planes[p].layers) = 1

C6_FirstCommitAfterPowerCycle == (out.op = "QueueUpdate" /\ out.commit_called /\ out.after_power_cycle \in {"cycled", "cycled_committed"}) => (out.color_pushed /\ out.validated /\ kNeedsColorCorrection \notin state_ /\ kConfigurationChanged \notin state_)

\* C6: the same when no frame was committed between the SetPowerMode(kOff)
\* and the SetPowerMode(kOn).
C6_FirstCommitAfterCleanPowerCycle == (out.op = "QueueUpdate" /\ out.commit_called /\ out.after_power_cycle = "cycled") => (out.color_pushed /\ out.validated /\ kNeedsColorCorrection \notin state_ /\ kConfigurationChanged \notin state_)

\* the first frame after a power cycle is committed
C6_Witness == out.op = "QueueUpdate" /\ out.after_power_cycle = "cycled" /\ out.path = "committed" /\ out.color_pushed /\ out.visible > 0

\* C8: HandleExit twice in a row leaves the queue as one HandleExit left it;
\* the second call closes no fence and disables no planes, and no fence is
\* kept after either.
C8_HandleExitIdempotent == (out.op = "HandleExit" => kms_fence_ = 0) /\ (exit_run = 2 => (out.op = "HandleExit" /\ out.kept.queue /\ ~out.fence_closed /\ ~out.planes_disabled))

\* HandleExit has run twice in a row
C8_Witness == exit_run = 2 /\ out.op = "HandleExit" /\ kPoweredOn \notin state_ /\ previous_plane_state_ = << >>

\* C7 as stated: a QueueUpdate that is not ignored, has a video layer and
\* finds requested_video_effect_ different from applied_video_effect_ runs
\* full validation and GPU composition: render_layers is true and Draw runs.
C7_VideoEffectChangeComposes == (Updated /\ out.has_video_layer /\ out.pre.video_pending) => (out.validated /\ out.render_layers /\ out.draw_called)

\* C7: such a QueueUpdate runs full validation and takes the requested
\* effect as applied; when the effect is being turned on render_layers is
\* true, and Draw has run whenever the frame reached Commit.
C7_VideoEffectChangeValidates == (Updated /\ out.has_video_layer /\ out.pre.video_pending) => (out.validated /\ applied_video_effect_ = requested_video_effect_ /\ (requested_video_effect_ => (out.render_layers /\ (out.commit_called => out.draw_called))))

\* a frame with a video layer is committed with the effect newly turned on
C7_Witness == Updated /\ out.has_video_layer /\ out.pre.video_pending /\ requested_video_effect_ /\ out.path = "committed" /\ out.draw_called

---------------------------------------------------------------------------
(* Fences: the out-fence of Commit, the fence the queue retains, the       *)
(* retire fence of the caller.                                             *)

\* one layer, Draw or Commit may fail, Commit returns an out-fence or none, clone mode switched on and off, power modes
MaxFenceLayers == 1

FenceFrames == FrameSet(MaxFenceLayers, {"normal"}, {"none", "content"})

QueueUpdateFence == \E source_layers \in FenceFrames : QueueUpdateOf(source_layers, FALSE, [AnyAnswer EXCEPT !.nsurf = {1}, !.single_off = {FALSE}, !.release = {NoFences}, !.outcomes = {"draw_failed", "commit_failed", "committed"}])

NextFence ==
    \/ QueueUpdateFence
    \/ SetCloneMode
    \/ SetPowerMode

SpecFence == Init /\ [][NextFence]_vars

\* the same for a build with ENABLE_DOUBLE_BUFFERING
QueueUpdateFenceDouble == \E source_layers \in FenceFrames : QueueUpdateOf(source_layers, FALSE, [AnyAnswer EXCEPT !.nsurf = {1}, !.single_off = {FALSE}, !.release = {NoFences}, !.outcomes = {"draw_failed", "commit_failed", "committed"}, !.double_buffering = TRUE])

NextFenceDouble ==
    \/ QueueUpdateFenceDouble
    \/ SetCloneMode
    \/ SetPowerMode

SpecFenceDouble == Init /\ [][NextFenceDouble]_vars

\* C11: every out-fence stored in kms_fence_ is closed exactly once: no
\* operation closes a handle that is not open, none stores an out-fence
\* over a handle that is still open, and the queue holds an open handle
\* exactly when kms_fence_ is positive.
C11_OutFenceClosedOnce == (~out.double_close) /\ (~out.leaked) /\ (kms_open <=> (kms_fence_ > 0))

\* a commit stored a new out-fence after the retained one was closed
C11_Witness == out.op = "QueueUpdate" /\ out.path = "committed" /\ out.pre.kms_fence > 0 /\ out.fence_closed /\ out.fence_stored /\ kms_open

\* C13: a QueueUpdate that is not ignored leaves in *retire_fence a
\* duplicate of the out-fence exactly when the frame was committed, Commit
\* returned a positive out-fence and ClonedMode is clear; else it leaves -1.
C13_RetireFenceIsDuplicate == Updated => (out.retire_fence = (IF (out.path = "committed" /\ out.out_fence > 0 /\ kClonedMode \notin state_) THEN Dup(out.out_fence) ELSE -1))

\* a committed frame with an out-fence whose duplicate went to the caller
C13_Witness == Updated /\ out.path = "committed" /\ out.out_fence > 0 /\ kClonedMode \notin state_ /\ out.retire_fence = Dup(out.out_fence) /\ out.retire_fence # out.out_fence

\* C20: in a build without double buffering kms_fence_ is 0 whenever
\* QueueUpdate calls Commit: the retained fence was waited for and closed.
C20_NoRetainedFenceAtCommit == (out.op = "QueueUpdate" /\ out.commit_called) => (out.kms_at_commit = 0)

\* Commit was called by a QueueUpdate that found a retained fence
C20_Witness == out.op = "QueueUpdate" /\ out.commit_called /\ out.pre.kms_fence > 0 /\ out.fence_closed /\ out.kms_at_commit = 0

---------------------------------------------------------------------------
(* Release fences. *)

\* up to two layers on one or two planes, scanout or offscreen, every
\* commit returns an out-fence, the overlay layers hold fences or none
MaxReleaseLayers == 2

ReleaseFrames == FrameSet(MaxReleaseLayers, {"normal"}, {"none", "content"})

QueueUpdateRelease == \E source_layers \in ReleaseFrames : QueueUpdateOf(source_layers, FALSE, [AnyAnswer EXCEPT !.nsurf = {1}, !.outcomes = {"committed"}, !.fences = {1}])

NextRelease ==
    \/ QueueUpdateRelease

SpecRelease == Init /\ [][NextRelease]_vars

\* the release fences a call handed out, each with the report of its plane
HandedIn(release) == UNION { { [plane |-> release[p], to |-> release[p].handed[i]] : i \in { j \in 1..Len(release[p].handed) : release[p].handed[j].fence > 0 } } : p \in 1..Len(release) }

\* the handles the queue holds or closed in a call that reports o
HeldByQueue(o) == {kms_fence_, o.out_fence} \cup UNION { {o.release[p].release_fence} \cup { o.release[p].closed[i] : i \in 1..Len(o.release[p].closed) } : p \in 1..Len(o.release) }

\* each plane's positive composition fence was closed once, no other handle was
CompositionFencesClosedOnce(release) == \A p \in 1..Len(release) : release[p].closed = (IF release[p].release_fence > 0 THEN << release[p].release_fence >> ELSE << >>)

\* no two layers were handed the same handle
HandedApart(release) == \A a, b \in HandedIn(release) : (a.to.fence = b.to.fence) => (a.to.layer = b.to.layer)

\* C12 as stated: every release fence handed to a layer is a duplicate,
\* it is no handle the queue holds or closes, and each plane's composition
\* fence is closed exactly once.
C12_ReleaseFencesAreDuplicates == (\A h \in HandedIn(out.release) : (h.to.fence = DupFor(h.to.original, h.to.layer) /\ h.to.fence \notin HeldByQueue(out))) /\ CompositionFencesClosedOnce(out.release) /\ HandedApart(out.release)

\* C12: every release fence handed to a layer is a duplicate of the
\* out-fence or of the plane's composition fence, or, for a plane without a
\* positive composition fence, the layer's own acquire fence given up by
\* the overlay layer; it is no handle the queue holds or closes, no two
\* layers get the same handle, and each plane's positive composition fence
\* is closed exactly once.
C12_ReleaseFencesOwnedByCaller == (\A h \in HandedIn(out.release) : ((h.to.fence = DupFor(h.to.original, h.to.layer) \/ (h.plane.release_fence <= 0 /\ h.to.composition = "gpu" /\ h.to.fence = h.to.original)) /\ h.to.fence \notin HeldByQueue(out))) /\ CompositionFencesClosedOnce(out.release) /\ HandedApart(out.release)

\* a commit handed a layer the duplicate of a composition fence that was
\* then closed
C12_Witness == out.path = "committed" /\ out.out_fence > 0 /\ (\E h \in HandedIn(out.release) : h.plane.release_fence > 0 /\ h.plane.closed # << >> /\ h.to.fence = DupFor(h.plane.release_fence, h.to.layer))

---------------------------------------------------------------------------
(* Layers added on top. *)

---------------------------------------------------------------------------
(* Color correction. *)

\* one layer, Commit may fail, the color setters, power modes
MaxColorLayers == 1

ColorFrames == FrameSet(MaxColorLayers, {"normal"}, {"none", "content"})

QueueUpdateColor == \E source_layers \in ColorFrames : QueueUpdateOf(source_layers, FALSE, [AnyAnswer EXCEPT !.nsurf = {1}, !.single_off = {FALSE}, !.release = {NoFences}, !.outcomes = {"commit_failed", "committed"}, !.fences = {0}])

NextColor ==
    \/ QueueUpdateColor
    \/ SetGamma
    \/ SetColorTransform
    \/ SetContrast
    \/ SetBrightness
    \/ SetPowerMode

SpecColor == Init /\ [][NextColor]_vars

\* C18 as stated: once a color setter was called NeedsColorCorrection stays
\* set, whatever else is called, until a QueueUpdate reaches Commit; that
\* QueueUpdate pushes the values and clears the bit.
C18_ColorCorrectionStaysUntilCommit == ((color_request \in {"pending", "lost"}) => (kNeedsColorCorrection \in state_)) /\ ((out.op = "QueueUpdate" /\ out.commit_called) => (kNeedsColorCorrection \notin state_ /\ color_request = "none"))

\* C18: once a color setter was called NeedsColorCorrection stays set until
\* a QueueUpdate reaches Commit or HandleExit runs.  A QueueUpdate that
\* reaches Commit pushes the values if the bit is set and leaves it clear;
\* HandleExit clears the bit without a push, and the values are pushed by
\* a later commit only after SetPowerMode(kOn) or a color setter set the
\* bit again.
C18_ColorCorrectionStaysUntilCommitOrExit == ((color_request = "pending") => (kNeedsColorCorrection \in state_)) /\ ((out.op = "QueueUpdate" /\ out.commit_called) => (kNeedsColorCorrection \notin state_ /\ color_request # "pending" /\ (out.color_was = "pending" => out.color_pushed))) /\ ((out.op = "HandleExit") => (kNeedsColorCorrection \notin state_ /\ color_request # "pending"))

\* a commit pushed values that a color setter had set
C18_Witness == out.op = "QueueUpdate" /\ out.commit_called /\ out.color_pushed /\ out.color_was = "pending" /\ color_request = "none" /\ kNeedsColorCorrection \notin state_

---------------------------------------------------------------------------
(* Idle frames. *)

\* frames of two layers on two planes, the refresh callback registered or
\* not, power modes, HandleIdleCase
MaxIdleLayers == 2

IdleFrames == FramesOfLength(MaxIdleLayers, {"normal"}, {"none"})

QueueUpdateIdle == \E source_layers \in IdleFrames : QueueUpdateOf(source_layers, FALSE, [AnyAnswer EXCEPT !.nsurf = {1}, !.single_off = {FALSE}, !.release = {NoFences}, !.outcomes = {"committed"}, !.fences = {0}])

NextIdle ==
    \/ QueueUpdateIdle
    \/ HandleIdleCase
    \/ RegisterRefreshCallback
    \/ SetPowerMode

SpecIdle == Init /\ [][NextIdle]_vars

\* the last operation was a HandleIdleCase that passed the no-op tests
IdleCounted == out.op = "HandleIdleCase" /\ ~out.idle.noop

\* C17 as stated: in a run of HandleIdleCase calls that pass the no-op tests
\* the refresh callback fires on the call that takes idle_frames_ past
\* kidleframes, on no other, and that call sets PrepareIdleComposition.
C17_RefreshFiresOnceWhenIdle == (IdleCounted => ((out.idle.fired <=> (out.idle.before = kidleframes)) /\ (out.idle.fired => (kPrepareIdleComposition \in tracker.state /\ tracker.idle_frames = kidleframes + 1)))) /\ (idle_fired <= 1)

\* C17: in a run of HandleIdleCase calls that pass the no-op tests the
\* refresh callback fires at most once: on the call that takes idle_frames_
\* past kidleframes, and only if at that call IgnoreIdleRefresh is clear, a
\* callback is registered and the display is powered on; that call sets
\* PrepareIdleComposition, and no other call of the run fires the callback
\* or sets the bit.
C17_RefreshFiresOnceWhenIdleAndPowered == (IdleCounted => ((out.idle.fired <=> (out.idle.before = kidleframes /\ out.idle.may_refresh)) /\ (out.idle.fired => (kPrepareIdleComposition \in tracker.state /\ tracker.idle_frames = kidleframes + 1)) /\ ((~out.idle.fired) => out.kept.queue \/ tracker.idle_frames = out.idle.before + 1))) /\ (idle_fired <= 1)

\* the call that took the idle counter past kidleframes fired the callback
C17_Witness == IdleCounted /\ out.idle.fired /\ out.idle.before = kidleframes /\ idle_fired = 1 /\ kPrepareIdleComposition \in tracker.state

---------------------------------------------------------------------------
(* Threads: the three locks. *)

NextLocks ==
    \/ \E t \in Threads : Enter(t)
    \/ \E t \in Threads : Acquire(t)
    \/ \E t \in Threads : Release(t)
    \/ \E t \in Threads : Access(t)
    \/ \E t \in Threads : Return(t)

SpecLocks == Init /\ [][NextLocks]_vars

\* thread t can take its next step
CanStep(t) == AtEnd(t) \/ At(t, "unlock") \/ At(t, "access") \/ (At(t, "lock") /\ Free(Statement(t).on))

\* thread t is in the middle of an access to x
Accessing(t, x) == At(t, "access") /\ Statement(t).on = x

\* two threads are in an access to x at once, one of them writing
Race(x) == \E t1, t2 \in Threads : t1 # t2 /\ Accessing(t1, x) /\ Accessing(t2, x) /\ (Statement(t1).write \/ Statement(t2).write)

\* C14 as stated: a thread that reads or writes a FrameStateTracker field
\* holds idle_lock_, so no two threads are in such an access at once.
C14_TrackerAccessUnderIdleLock == (\A t \in Threads : Accessing(t, "tracker") => Holds(t, "idle_lock_")) /\ ~Race("tracker")

\* IgnoreUpdates writes the tracker on the caller thread while
\* HandleIdleCase writes it on the vblank thread
C14_Witness == pc["caller"].op = "IgnoreUpdates" /\ Accessing("caller", "tracker") /\ ~Holds("caller", "idle_lock_") /\ pc["vblank"].op = "HandleIdleCase" /\ Accessing("vblank", "tracker") /\ Holds("vblank", "idle_lock_") /\ Race("tracker")

\* C15: a thread that holds two of the locks took idle_lock_ first and
\* power_mode_lock_ second, and the operations never deadlock: while some
\* thread is inside an operation, some thread can take a step.
C15_LocksNestInOneOrder == (\A t \in Threads : Len(holding[t]) >= 2 => holding[t] = << "idle_lock_", "power_mode_lock_" >>) /\ ((\E t \in Threads : Busy(t)) => (\E t \in Threads : Busy(t) /\ CanStep(t)))

\* HandleIdleCase holds idle_lock_ and power_mode_lock_ while another
\* thread waits for one of them
C15_Witness == \E t1, t2 \in Threads : t1 # t2 /\ holding[t1] = << "idle_lock_", "power_mode_lock_" >> /\ At(t2, "lock") /\ Holds(t1, Statement(t2).on)

\* C16 as stated: a thread in a video setter or getter or reading
\* requested_video_effect_ holds video_lock_, so no getter runs while a
\* setter is in its compositor call.
C16_VideoAccessUnderVideoLock == (\A t \in Threads : (Accessing(t, "requested_video_effect_") \/ Accessing(t, "compositor_video")) => Holds(t, "video_lock_")) /\ ~Race("compositor_video")

\* GetVideoColor is in the compositor while a setter is in its compositor
\* call
C16_Witness == \E t1, t2 \in Threads : t1 # t2 /\ pc[t1].op = "GetVideoColor" /\ Accessing(t1, "compositor_video") /\ ~Holds(t1, "video_lock_") /\ pc[t2].op = "SetVideoColor" /\ Accessing(t2, "compositor_video") /\ Holds(t2, "video_lock_")

---------------------------------------------------------------------------
(* Recycled surfaces. *)

\* one or two layers, each plane composed offscreen into one or three
\* surfaces, layers coming and going, Commit may fail
MaxRecycleLayers == 2

RecycleFrames == FrameSet(MaxRecycleLayers, {"normal"}, {"none"})

QueueUpdateRecycle == \E source_layers \in RecycleFrames : QueueUpdateOf(source_layers, FALSE, [AnyAnswer EXCEPT !.single_off = {TRUE}, !.release = {NoFences}, !.outcomes = {"commit_failed", "committed"}, !.fences = {0}])

NextRecycle ==
    \/ QueueUpdateRecycle

SpecRecycle == Init /\ [][NextRecycle]_vars

\* every surface waiting in surfaces_not_inuse_ came with an age of 0 or
\* more and is one younger for every commit since
WaitingAged == (Len(recycle_log.queue) = Len(surfaces_not_inuse_)) /\ (\A i \in 1..Len(surfaces_not_inuse_) : (recycle_log.queue[i].entered >= 0 /\ surfaces_not_inuse_[i] = recycle_log.queue[i].entered - recycle_log.queue[i].commits /\ surfaces_not_inuse_[i] >= 0))

\* every surface in mark_not_inuse_ was moved there, at age 0, by the last
\* commit: the one that followed as many commits as the age it came with
MovedAtZero == (Len(recycle_log.mark) = Len(mark_not_inuse_)) /\ (\A i \in 1..Len(mark_not_inuse_) : (mark_not_inuse_[i] = 0 /\ recycle_log.mark[i].commits = recycle_log.mark[i].entered + 1))

\* C21: a surface put in surfaces_not_inuse_ with an age a >= 0 stays
\* there, one younger for every successful commit, until a commit finds it
\* at age 0 and moves it to mark_not_inuse_; a failed or ignored frame
\* changes no age.  A commit gives age -1 to exactly the surfaces the
\* commit before it moved, never to those it moves itself, and empties
\* mark_not_inuse_ of them.
C21_RecycledSurfaceAges == WaitingAged /\ MovedAtZero /\ ((out.op = "QueueUpdate" /\ out.path = "committed") => (Len(out.marked) = out.pre.marks /\ (\A i \in 1..Len(out.marked) : out.marked[i] = -1) /\ Len(surfaces_not_inuse_) + Len(mark_not_inuse_) = Len(out.not_inuse_at_commit))) /\ ((out.op = "QueueUpdate" /\ out.path # "committed") => (out.marked = << >> /\ Len(mark_not_inuse_) = out.pre.marks))

\* a commit marked a surface the commit before had moved, moved another
\* and kept a third that has waited for a commit already
C21_Witness == out.op = "QueueUpdate" /\ out.path = "committed" /\ out.marked # << >> /\ mark_not_inuse_ # << >> /\ (\E i \in 1..Len(surfaces_not_inuse_) : recycle_log.queue[i].commits >= 1 /\ recycle_log.queue[i].entered = 2)

---------------------------------------------------------------------------
(* Surface ages. *)

\* one or two layers, each plane composed offscreen into two or four
\* surfaces, layers coming and going
MaxAgeLayers == 2

AgeFrames == FrameSet(MaxAgeLayers, {"normal"}, {"none"})

QueueUpdateAges == \E source_layers \in AgeFrames : QueueUpdateOf(source_layers, FALSE, [AnyAnswer EXCEPT !.nsurf = {2, 4}, !.single_off = {TRUE}, !.release = {NoFences}, !.outcomes = {"committed"}, !.fences = {0}, !.max_not_inuse = MaxAgedNotInUse])

NextAges ==
    \/ QueueUpdateAges

SpecAges == Init /\ [][NextAges]_vars

\* the ages of the surfaces the queue knows
KnownAges == UNION { Ages(previous_plane_state_[p]) : p \in 1..Len(previous_plane_state_) } \cup { surfaces_not_inuse_[i] : i \in 1..Len(surfaces_not_inuse_) } \cup { mark_not_inuse_[i] : i \in 1..Len(mark_not_inuse_) }

\* C22 as stated: the age of every surface of a committed plane, of
\* surfaces_not_inuse_ and of mark_not_inuse_ is one of -1, 0, 1, 2, also
\* for planes with a surface count other than 1 or 3 and for surfaces that
\* wait in surfaces_not_inuse_ with a negative age.
C22_AgesStayInRange == KnownAges \subseteq {-1, 0, 1, 2}

\* a surface that came to surfaces_not_inuse_ with age -1 was kept by a
\* commit and left with age -2
C22_Witness == \E i \in 1..Len(surfaces_not_inuse_) : (recycle_log.queue[i].entered = -1 /\ recycle_log.queue[i].commits = 1 /\ surfaces_not_inuse_[i] = -2)

---------------------------------------------------------------------------
(* The primary plane. *)

\* frames deep enough for three planes, layers coming and going, and the
\* frame without a layer
PrimaryFrames == PlaneFrames \cup {<< >>}

QueueUpdatePrimary == \E source_layers \in PrimaryFrames : QueueUpdateOf(source_layers, FALSE, [AnyAnswer EXCEPT !.nsurf = {1}, !.single_off = {FALSE}, !.release = {NoFences}, !.outcomes = {"committed"}, !.fences = {0}])

NextPrimary ==
    \/ QueueUpdatePrimary

SpecPrimary == Init /\ [][NextPrimary]_vars

\* C23: a plan that reaches Commit on the incremental path begins with the
\* first plane of previous_plane_state_, holding at least one of its
\* layers; a removal that would leave that plane without layers makes
\* GetCachedLayers ask for full validation, which the same call runs; the
\* squash leaves the first plane as it is.
C23_PrimaryPlaneKept == ((Updated /\ out.commit_called /\ ~out.validated) => out.primary_kept) /\ ((Updated /\ out.primary_emptied) => (out.validated /\ out.validate_index = 0 /\ out.remove_index # -1)) /\ ((Updated /\ out.pre.squashed) => (~out.validated /\ out.primary_kept))

\* a frame without a layer would have emptied the primary plane and was
\* fully validated
C23_Witness == Updated /\ out.primary_emptied /\ out.validated /\ out.pre.planes = 3 /\ out.remove_index = 0 /\ out.commit_called

---------------------------------------------------------------------------
(* ForceRefresh. *)

\* one layer, IgnoreUpdates and ForceRefresh, the refresh callback
\* registered or not, power modes
MaxRefreshLayers == 1

RefreshFrames == FrameSet(MaxRefreshLayers, {"normal"}, {"none"})

QueueUpdateRefresh == \E source_layers \in RefreshFrames : QueueUpdateOf(source_layers, FALSE, [AnyAnswer EXCEPT !.nsurf = {1}, !.single_off = {FALSE}, !.release = {NoFences}, !.outcomes = {"committed"}, !.fences = {0}])

NextRefresh ==
    \/ QueueUpdateRefresh
    \/ IgnoreUpdates
    \/ ForceRefresh
    \/ RegisterRefreshCallback
    \/ SetPowerMode

SpecRefresh == Init /\ [][NextRefresh]_vars

\* C24: ForceRefresh leaves IgnoreUpdates clear and RevalidateLayers set;
\* the QueueUpdate that follows it is not ignored and runs full validation
\* (ValidateLayers from index 0); ForceRefresh calls the refresh callback
\* only if one is registered, PoweredOn is set and IgnoreIdleRefresh is
\* clear.
C24_ForceRefreshRevalidates == ((out.op = "ForceRefresh") => (kIgnoreUpdates \notin tracker.state /\ kRevalidateLayers \in tracker.state /\ (out.refresh_fired => (refresh_callback_ /\ kPoweredOn \in state_ /\ kIgnoreIdleRefresh \notin state_)))) /\ ((out.op = "QueueUpdate" /\ out.after_refresh.now) => (out.path # "ignored" /\ out.validated /\ out.validate_index = 0))

\* after IgnoreUpdates and ForceRefresh the frame on screen was handed in
\* again and fully validated
C24_Witness == out.op = "QueueUpdate" /\ out.after_refresh.now /\ out.after_refresh.was_ignoring /\ out.same_layers /\ out.pre.planes > 0 /\ out.validated /\ out.path = "committed"

---------------------------------------------------------------------------
(* Idle frames that are committed. *)

\* one layer, possibly with new content or asking for revalidation, or two
\* unchanged ones, idle updates,
\* Commit may fail, clone mode switched on and off
MaxIdleFrameLayers == 2

\* most surfaces waiting in surfaces_not_inuse_ before a frame starts
MaxIdleNotInUse == 1

IdleUpdateFrames == FramesOfLength(1, {"normal"}, {"none", "content", "reval"}) \cup UNION { FramesOfLength(n, {"normal"}, {"none"}) : n \in 2..MaxIdleFrameLayers }

QueueUpdateIdleFrame == \E source_layers \in IdleUpdateFrames, idle_update \in BOOLEAN : QueueUpdateOf(source_layers, idle_update, [AnyAnswer EXCEPT !.nsurf = {1}, !.single_off = {FALSE}, !.release = {NoFences}, !.outcomes = {"commit_failed", "committed"}, !.fences = {0}, !.max_not_inuse = MaxIdleNotInUse])

NextIdleFrame ==
    \/ QueueUpdateIdleFrame
    \/ SetCloneMode

SpecIdleFrame == Init /\ [][NextIdleFrame]_vars

\* the last operation committed a frame
Committed == out.op = "QueueUpdate" /\ out.path = "committed"

\* a committed idle frame was fully validated with every plane composed by
\* the GPU, released the free offscreen targets and set LastFrameIdleUpdate
\* (and RenderIdleDisplay in cloned mode); a committed frame that is not
\* idle cleared LastFrameIdleUpdate
IdleFrameCommit == ((Committed /\ out.idle_frame) => (out.validated /\ out.validate_index = 0 /\ (\A p \in 1..Len(out.commit_planes) : out.commit_planes[p].offscreen) /\ (out.shown > 0 => out.render_layers) /\ out.released /\ state_ \cap {kMarkSurfacesForRelease, kReleaseSurfaces} = {} /\ kLastFrameIdleUpdate \in state_ /\ (kClonedMode \in state_ => out.render_idle_display))) /\ ((Committed /\ ~out.idle_frame) => (kLastFrameIdleUpdate \notin state_))

\* the frame was asked for as idle and none of its layers has new content
\* or needs revalidation, and no video effect change is pending for it
IdleAsked == (out.idle_update \/ out.pre.render_idle) /\ (out.facets \cap {"content", "reval"} = {}) /\ ~(out.has_video_layer /\ out.pre.video_pending)

---------------------------------------------------------------------------
(* UpdateScalingRatio on its own                                           *)
NextScaling == UpdateScalingRatio

SpecScaling == Init /\ [][NextScaling]_vars

\* (display - primary) / primary as the numbers give it
ExactRatio(display, primary) == [num |-> FloatOf(display - primary), den |-> FloatOf(primary)]

ScalingUpdated == out.op = "UpdateScalingRatio"

\* C26: UpdateScalingRatio(pw, ph, dw, dh) switches scaling off exactly when
\* display and primary have the same size, otherwise records
\* (dw - pw) / pw and (dh - ph) / ph, with a negative numerator for a
\* display smaller than the primary, and sets ConfigurationChanged
C26_ScalingRatioRecorded == ScalingUpdated => ((kConfigurationChanged \in state_) /\ ((scaling_tracker_.scaling_state_ = kNeeedsNoSclaing) <=> (out.scaling.display_width = out.scaling.primary_width /\ out.scaling.display_height = out.scaling.primary_height)) /\ ((scaling_tracker_.scaling_state_ = kNeedsScaling) => (scaling_tracker_.scaling_width = ExactRatio(out.scaling.display_width, out.scaling.primary_width) /\ scaling_tracker_.scaling_height = ExactRatio(out.scaling.display_height, out.scaling.primary_height))))

\* a display smaller than the primary: the recorded numerator is the
\* wrapped difference, about 2^32
C26_Witness == ScalingUpdated /\ out.scaling.display_width < out.scaling.primary_width /\ scaling_tracker_.scaling_state_ = kNeedsScaling /\ ~scaling_tracker_.scaling_width.num.neg /\ scaling_tracker_.scaling_width.num.e = 8 /\ scaling_tracker_.scaling_width.num.m = Pow2(24) - 2

\* what holds: the areas decide, the differences wrap, the flag is set
C26_ScalingRatioWraps == ScalingUpdated => ((kConfigurationChanged \in state_) /\ ((scaling_tracker_.scaling_state_ = kNeedsScaling) <=> AreasDiffer(out.scaling.primary_width, out.scaling.primary_height, out.scaling.display_width, out.scaling.display_height)) /\ ((scaling_tracker_.scaling_state_ = kNeedsScaling) => ((~scaling_tracker_.scaling_width.num.neg) /\ (~scaling_tracker_.scaling_height.num.neg) /\ ((out.scaling.display_width >= out.scaling.primary_width) => scaling_tracker_.scaling_width = ExactRatio(out.scaling.display_width, out.scaling.primary_width)) /\ ((out.scaling.display_height >= out.scaling.primary_height) => scaling_tracker_.scaling_height = ExactRatio(out.scaling.display_height, out.scaling.primary_height)))))

\* the same area with another size: scaling stays off
C26_SameAreaSeen == ScalingUpdated /\ out.scaling.primary_width = 1920 /\ out.scaling.primary_height = 1080 /\ out.scaling.display_width = 1080 /\ out.scaling.display_height = 1920 /\ scaling_tracker_.scaling_state_ = kNeeedsNoSclaing

---------------------------------------------------------------------------
\* the call passed add_index to ValidateLayers on the incremental path
ValidatedFromAddIndex == out.op = "QueueUpdate" /\ out.incremental_index > 0

\* C27: whenever QueueUpdate calls ValidateLayers on the incremental path,
\* add_index is an index into the layer list it built, also when a layer
\* without previous peer was dropped because its overlay is invisible
C27_AddIndexIsAnIndex == ValidatedFromAddIndex => (out.incremental_index = out.add_index /\ out.add_index < out.shown)

\* the frame in flight has one layer, the new frame a second one whose
\* overlay is invisible: ValidateLayers is called with add_index = 1 on a
\* list of one layer
C27_Witness == ValidatedFromAddIndex /\ out.add_index = 1 /\ out.shown = 1 /\ out.visible = 2 /\ out.pre.in_flight = 1 /\ "hidden" \in out.facets

\* what holds: add_index is at most the length of the list
C27_AddIndexAtMostLength == ValidatedFromAddIndex => (out.incremental_index = out.add_index /\ out.add_index <= out.shown /\ out.add_index >= out.pre.in_flight)

---------------------------------------------------------------------------
\* the call found requested_video_effect_ different from
\* applied_video_effect_ for a frame with a video layer, and failed
EffectFrameFailed == out.op = "QueueUpdate" /\ out.has_video_layer /\ out.pre.video_pending /\ ~out.result

\* C28: when the frame that finds requested_video_effect_ different from
\* applied_video_effect_ fails in BeginFrame, Draw or Commit, the two still
\* differ afterwards, so that a later frame with a video layer applies the
\* media effects state again
C28_FailedFrameKeepsEffectPending == EffectFrameFailed => (applied_video_effect_ # requested_video_effect_)

\* Draw failed for the frame that turned the effect on, and
\* applied_video_effect_ already says it is applied
C28_Witness == EffectFrameFailed /\ out.path = "draw_failed" /\ out.draw_called /\ requested_video_effect_ /\ applied_video_effect_ /\ last_commit_failed_update_

\* what holds: the frame that finds the difference removes it, whatever
\* becomes of the frame
C28_EffectMarkedAppliedAtOnce == (out.op = "QueueUpdate" /\ out.path # "ignored" /\ out.has_video_layer /\ out.pre.video_pending) => (applied_video_effect_ = requested_video_effect_)

---------------------------------------------------------------------------
(* deferred release: one layer with or without new content, idle updates,  *)
(* Commit may fail, HandleExit                                            *)
MaxDeferredLayers == 1

DeferredFrames == UNION { FramesOfLength(n, {"normal"}, {"none", "content"}) : n \in 1..MaxDeferredLayers }

QueueUpdateDeferred == \E source_layers \in DeferredFrames, idle_update \in BOOLEAN : QueueUpdateOf(source_layers, idle_update, [AnyAnswer EXCEPT !.nsurf = {1}, !.single_off = {FALSE}, !.release = {NoFences}, !.outcomes = {"commit_failed", "committed"}, !.fences = {0}, !.max_not_inuse = MaxIdleNotInUse])

NextDeferred ==
    \/ QueueUpdateDeferred
    \/ Exit

SpecDeferred == Init /\ [][NextDeferred]_vars

ReleaseBits == state_ \cap {kMarkSurfacesForRelease, kReleaseSurfaces}

\* C29: MarkSurfacesForRelease and ReleaseSurfaces are never both set; a
\* non-idle commit that went through full validation leaves only
\* MarkSurfacesForRelease; a non-idle commit releases the free offscreen
\* targets only when it is the second incrementally validated commit in a
\* row after a fully validated one, and then clears both bits
C29_ReleaseIsTwoStaged == (ReleaseBits # {kMarkSurfacesForRelease, kReleaseSurfaces}) /\ ((Committed /\ ~out.idle_frame /\ out.validated) => (ReleaseBits = {kMarkSurfacesForRelease} /\ ~out.released)) /\ ((Committed /\ ~out.idle_frame /\ ~out.validated) => ((out.pre.run = "full" => (ReleaseBits = {kReleaseSurfaces} /\ ~out.released)) /\ (out.pre.run = "full_inc" => (ReleaseBits = {} /\ out.released)) /\ (out.pre.run = "none" => (ReleaseBits = {} /\ ~out.released)))) /\ ((kMarkSurfacesForRelease \in state_) <=> (commit_run = "full")) /\ ((kReleaseSurfaces \in state_) <=> (commit_run = "full_inc"))

\* full validation, an incremental commit, and the incremental commit that
\* releases
C29_Witness == Committed /\ ~out.idle_frame /\ ~out.validated /\ out.pre.run = "full_inc" /\ out.released /\ ReleaseBits = {} /\ commit_run = "none"

---------------------------------------------------------------------------
(* clone mode and power: SetCloneMode, SetPowerMode, HandleExit            *)
NextClone ==
    \/ SetCloneMode
    \/ SetPowerMode
    \/ Exit

SpecClone == Init /\ [][NextClone]_vars

\* a step of SetCloneMode that takes the vblank handler to On
ClonePowersOn == SetCloneMode /\ vblank_power_ # kOn /\ vblank_power_' = kOn

\* C30: while ClonedMode is set the vblank handler's power mode is Off,
\* whatever the order of SetCloneMode, SetPowerMode and HandleExit, and
\* SetCloneMode powers the vblank handler On only when ClonedMode was set
C30_ClonedModeKeepsVblankOff == [](kClonedMode \in state_ => vblank_power_ = kOff) /\ [][ClonePowersOn => kClonedMode \in state_]_vars

\* SetPowerMode(kOn) on a cloned display: ClonedMode set, vblank On
C30_Witness == kClonedMode \in state_ /\ vblank_power_ = kOn /\ out.op = "SetPowerModeOn" /\ kPoweredOn \in state_

\* what holds: only SetCloneMode(true) and HandleExit take the handler to
\* Off, so a cloned display with the handler not Off is a powered one; and
\* SetCloneMode powers On only out of ClonedMode
C30_ClonedVblankOffUntilPowered == []((kClonedMode \in state_ /\ vblank_power_ # kOff) => kPoweredOn \in state_) /\ [][ClonePowersOn => (kClonedMode \in state_ /\ kClonedMode \notin state_' /\ kConfigurationChanged \in state_')]_vars

---------------------------------------------------------------------------
\* C32: refresh_callback_ (with refrsh_display_id_) is never read for the
\* call in HandleIdleCase or ForceRefresh while RegisterRefreshCallback
\* writes it on another thread: every access is made under one common
\* lock, which can only be idle_lock_, the one the writer holds
C32_CallbackAccessUnderCommonLock == (\A t \in Threads : Accessing(t, "refresh_callback_") => Holds(t, "idle_lock_")) /\ ~Race("refresh_callback_")

\* ForceRefresh reads refresh_callback_ under power_mode_lock_ alone while
\* RegisterRefreshCallback writes it under idle_lock_
C32_Witness == pc["vblank"].op = "ForceRefresh" /\ Accessing("vblank", "refresh_callback_") /\ Holds("vblank", "power_mode_lock_") /\ ~Holds("vblank", "idle_lock_") /\ pc["caller"].op = "RegisterRefreshCallback" /\ Accessing("caller", "refresh_callback_") /\ Holds("caller", "idle_lock_")

\* what holds: HandleIdleCase reads it under idle_lock_, so it never meets
\* the writer; the readers hold power_mode_lock_, the writer idle_lock_
C32_CallbackLocksHeld == (\A t \in Threads : Accessing(t, "refresh_callback_") => ((pc[t].op = "RegisterRefreshCallback" => Holds(t, "idle_lock_")) /\ (pc[t].op = "ForceRefresh" => Holds(t, "power_mode_lock_")) /\ (pc[t].op = "HandleIdleCase" => (Holds(t, "idle_lock_") /\ Holds(t, "power_mode_lock_"))))) /\ (\A t1, t2 \in Threads : (t1 # t2 /\ pc[t1].op = "HandleIdleCase" /\ Accessing(t1, "refresh_callback_")) => ~Accessing(t2, "refresh_callback_"))

---------------------------------------------------------------------------
(* the refresh gate: frames of two layers, HandleIdleCase, ForceRefresh,   *)
(* the refresh callback registered or not, power modes                     *)
NextGate ==
    \/ QueueUpdateIdle
    \/ HandleIdleCase
    \/ ForceRefresh
    \/ RegisterRefreshCallback
    \/ SetPowerMode

SpecGate == Init /\ [][NextGate]_vars

\* HandleExit has run (SetPowerMode Off or Doze) and no SetPowerMode(kOn)
\* since
ExitedNoOnSince == power_cycled \in {"off", "off_committed"}

\* the state word lets a refresh through
GateOpen == kIgnoreIdleRefresh \notin state_ /\ kPoweredOn \in state_

\* the last operation called refresh_callback_->Callback
RefreshInvoked == (out.op = "ForceRefresh" /\ out.refresh_fired) \/ (out.op = "HandleIdleCase" /\ out.idle.fired)

\* C31: from HandleExit (SetPowerMode Off or Doze) to the next
\* SetPowerMode(kOn) the gate, IgnoreIdleRefresh clear and PoweredOn set, is
\* closed and neither HandleIdleCase nor ForceRefresh calls the refresh
\* callback, also after HandleExit has rewritten the state word and after
\* SetPowerMode(kDozeSuspend)
C31_NoRefreshBetweenExitAndOn == ExitedNoOnSince => (~GateOpen /\ ~RefreshInvoked)

\* HandleExit, SetPowerMode(kDozeSuspend), and ForceRefresh calls the
\* callback
C31_Witness == ExitedNoOnSince /\ out.op = "ForceRefresh" /\ out.refresh_fired /\ vblank_power_ = kDozeSuspend /\ kIgnoreIdleRefresh \notin state_ /\ kPoweredOn \in state_

\* the same for HandleIdleCase
C31_IdleCaseSeen == ExitedNoOnSince /\ out.op = "HandleIdleCase" /\ out.idle.fired /\ vblank_power_ = kDozeSuspend

\* what holds: after HandleExit the gate stays closed until SetPowerMode
\* marks the display PoweredOn again, with kDozeSuspend or kOn
C31_GateClosedUntilPowered == (ExitedNoOnSince /\ (GateOpen \/ RefreshInvoked)) => (vblank_power_ = kDozeSuspend /\ kPoweredOn \in state_ /\ kIgnoreIdleRefresh \notin state_)

============================================================================
